---- MODULE Spec2Model ----
(***************************************************************************)
(* Code-quality metrics aggregator: three per-language analyzers           *)
(* (src/analyzers/*.py), each with four metric operations that run an      *)
(* external tool and turn its output into a MetricResult {score, issues},  *)
(* and the aggregator analyze_directory (src/app.py) that calls them.      *)
(*                                                                         *)
(* Scores are Python floats; they are modelled as exact rationals <<n, d>> *)
(* in lowest terms with d > 0.  A file name is the tuple of its            *)
(* characters.  A tool's captured output is the sequence of its lines,     *)
(* each line a token naming what the parsing code can tell about it.       *)
(* An issue entry is the pair <<text, file>> (file = <<>> when the text    *)
(* names no file).                                                         *)
(***************************************************************************)
EXTENDS Integers, Sequences, FiniteSets, TLC

(***************************************************************************)
(* Bounds of the model.                                                    *)
(***************************************************************************)
MaxFiles == 2       \* files in the analysed directory
MaxIssues == 11     \* the largest number of lines one tool run prints

(***************************************************************************)
(* Rational arithmetic (Python float arithmetic, taken as exact).          *)
(***************************************************************************)
Abs(x) == IF x < 0 THEN -x ELSE x

RECURSIVE GCD(_, _)
GCD(a, b) == IF b = 0 THEN a ELSE GCD(b, a % b)

Rat(n, d) ==
    LET g == GCD(Abs(n), Abs(d))
        s == IF d < 0 THEN -1 ELSE 1
    IN  <<(s * n) \div g, (s * d) \div g>>

R(n) == <<n, 1>>
RAdd(a, b) == Rat(a[1] * b[2] + b[1] * a[2], a[2] * b[2])
RSub(a, b) == Rat(a[1] * b[2] - b[1] * a[2], a[2] * b[2])
RMul(a, b) == Rat(a[1] * b[1], a[2] * b[2])
RDiv(a, b) == Rat(a[1] * b[2], a[2] * b[1])
RLe(a, b) == a[1] * b[2] <= b[1] * a[2]
RLt(a, b) == a[1] * b[2] < b[1] * a[2]
RMin(a, b) == IF RLe(a, b) THEN a ELSE b
RMax(a, b) == IF RLe(b, a) THEN a ELSE b

\* max(0, 10 - min(10, x)): the clamp every issue-count formula ends with.
Clamp10(x) == RMax(R(0), RSub(R(10), RMin(R(10), x)))

(***************************************************************************)
(* File names and extensions (src/constants.py).                           *)
(***************************************************************************)
PYTHON_EXTENSIONS == << <<".", "p", "y">> >>
JAVASCRIPT_EXTENSIONS == << <<".", "j", "s">>, <<".", "j", "s", "x">> >>
TYPESCRIPT_EXTENSIONS == << <<".", "t", "s">>, <<".", "t", "s", "x">> >>
JAVA_EXTENSIONS == << <<".", "j", "a", "v", "a">> >>

Range(s) == {s[i] : i \in 1..Len(s)}

\* str.endswith
EndsWith(s, suf) ==
    /\ Len(suf) <= Len(s)
    /\ SubSeq(s, Len(s) - Len(suf) + 1, Len(s)) = suf

\* any(file.endswith(ext) for ext in self.get_extensions())
MatchesAny(file, exts) == \E i \in 1..Len(exts) : EndsWith(file, exts[i])

\* The files of the universe, in the order os.walk lists them.
FileOrder ==
    << <<"a", ".", "p", "y">>,
       <<".", "p", "y">>,
       <<"b", ".", "j", "s">>,
       <<"c", ".", "t", "s">>,
       <<"d", ".", "j", "a", "v", "a">>,
       <<"e", ".", "j", "a", "v", "a">>,
       <<"f", ".", "g", "o">>,
       <<"g", ".", "P", "Y">> >>

FileNames == Range(FileOrder)

Directories == {d \in SUBSET FileNames : Cardinality(d) <= MaxFiles}

RECURSIVE FilterSeq(_, _, _)
FilterSeq(s, dir, exts) ==
    IF s = <<>> THEN <<>>
    ELSE IF Head(s) \in dir /\ MatchesAny(Head(s), exts)
         THEN <<Head(s)>> \o FilterSeq(Tail(s), dir, exts)
         ELSE FilterSeq(Tail(s), dir, exts)

\* The os.walk loop every operation starts with: the files of the
\* directory whose name ends with one of the analyzer's extensions.
MatchingFiles(dir, exts) == FilterSeq(FileOrder, dir, exts)

RECURSIVE Rep(_, _)
Rep(x, k) == IF k = 0 THEN <<>> ELSE <<x>> \o Rep(x, k - 1)

\* output.strip().split('\n'): an empty output gives the one line ''.
StripSplit(out) == IF out = <<>> THEN <<"">> ELSE out

\* An issue entry of a MetricResult.
Issue(text, file) == <<text, file>>
IssuesOf(lines, file) == [i \in 1..Len(lines) |-> Issue(lines[i], file)]

MetricResult(score, issues) == [score |-> score, issues |-> issues]

\* The part of the file system an operation can change or looks at
\* besides the source files: .eslintrc.json in the directory ("absent",
\* "user" when it came with the directory, "style" or "complexity" when
\* that operation wrote it), package.json, and the temporary files left.
FileSystem(rc, pkg, tmp) == [eslintrc |-> rc, package_json |-> pkg, tmp |-> tmp]

OuterHandler_Silent(issues, text) == MetricResult(R(0), issues)
\* The handler every operation ends with:
\*   except Exception as e:
\*       result['issues'].append(f"Error ...: {str(e)}"); result['score'] = 0
\* issues: what result['issues'] held when the exception was raised.
OuterHandler(issues, text) == MetricResult(R(0), Append(issues, Issue(text, <<>>)))

\* What one operation hands back, with what it did on the way: the
\* MetricResult, the number of subprocesses it started, whether its outer
\* "except Exception" handler ran, and the file system it leaves.
Ret(result, nsub, outer, fs) ==
    [result |-> result, nsub |-> nsub, outer |-> outer, fs |-> fs]

(***************************************************************************)
(* Outcomes of one subprocess.check_output call.  exit: "ok" (status 0),   *)
(* "fail" (CalledProcessError: non-zero status, output in e.output),       *)
(* "decode" (another exception, such as UnicodeDecodeError from            *)
(* text=True).  A tool that is not installed raises FileNotFoundError at   *)
(* the first call: env.installed = FALSE.                                  *)
(***************************************************************************)
Run(exit, out) == [exit |-> exit, out |-> out]
Exits == {"ok", "fail"}
Decode == Run("decode", <<>>)

EnvsOf(n, outcomes) ==
    {[installed |-> FALSE, runs |-> [i \in 1..n |-> Decode]]}
    \cup {[installed |-> TRUE, runs |-> r] : r \in [1..n -> outcomes]}

\* The call raises an exception check_output's caller does not expect.
Raises(env, i) == ~env.installed \/ env.runs[i].exit = "decode"

(***************************************************************************)
(* PythonAnalyzer (src/analyzers/python_analyzer.py).                      *)
(***************************************************************************)
NoPythonFiles == MetricResult(R(10), <<Issue("No Python files found", <<>>)>>)

\* flake8 prints one line per issue.
Flake8Outputs == {<<>>, <<"E501">>, Rep("E501", MaxIssues)}
Flake8Envs(n) ==
    EnvsOf(n, {Run(e, o) : e \in Exits, o \in Flake8Outputs} \cup {Decode})

PyStyleFormula_Total(total_issues, n) == Clamp10(R(total_issues))
PyStyleFormula(total_issues, n) == Clamp10(Rat(total_issues, n))

PythonAnalyzer_analyze_style(dir, fs, env) ==
    LET python_files == MatchingFiles(dir, PYTHON_EXTENSIONS)
        n == Len(python_files)
        acc[i \in 0..n] ==
            IF i = 0
            THEN [issues |-> <<>>, total |-> 0, exc |-> FALSE, nsub |-> 0]
            ELSE LET a == acc[i - 1]
                     lines == StripSplit(env.runs[i].out)
                 IN  IF a.exc THEN a
                     ELSE IF Raises(env, i)
                     THEN [a EXCEPT !.exc = TRUE, !.nsub = @ + 1]
                     ELSE IF lines[1] # ""
                     THEN [a EXCEPT !.issues = @ \o IssuesOf(lines, python_files[i]),
                                    !.total = @ + Len(lines),
                                    !.nsub = @ + 1]
                     ELSE [a EXCEPT !.nsub = @ + 1]
        end == acc[n]
    IN  IF n = 0 THEN Ret(NoPythonFiles, 0, FALSE, fs)
        ELSE IF end.exc
        THEN Ret(OuterHandler(end.issues, "Error running flake8"),
                 end.nsub, TRUE, fs)
        ELSE Ret(MetricResult(PyStyleFormula(end.total, n), end.issues),
                 end.nsub, FALSE, fs)

\* pylint output lines: <<"msg", 0>> a message line (it has a ':'),
\* <<"rated", r>> the line 'Your code has been rated at r/10' with r the
\* rational float() reads, <<"ratedbad", 0>> the same line with digits,
\* dots and dashes that float() rejects (ValueError).
PylintMsg == <<"msg", R(0)>>
Rated(r) == <<"rated", r>>
RatedBad == <<"ratedbad", R(0)>>
Ratings == {Rat(-5, 2), R(0), Rat(15, 2), R(10), R(12)}
PylintOutputs ==
    {<<>>, <<PylintMsg>>, <<RatedBad>>, <<PylintMsg, Rated(Rat(15, 2))>>}
    \cup {<<Rated(r)>> : r \in Ratings}
PylintEnvs(n) ==
    EnvsOf(n, {Run(e, o) : e \in Exits, o \in PylintOutputs} \cup {Decode})

\* re.search(r'Your code has been rated at ([-\d.]+)/10', output): the
\* first rating line, <<>> when there is none.
RECURSIVE ScoreMatch(_)
ScoreMatch(out) ==
    IF out = <<>> THEN <<>>
    ELSE IF Head(out)[1] \in {"rated", "ratedbad"} THEN Head(out)
    ELSE ScoreMatch(Tail(out))

\* the lines with ':' in them that do not start with 'Your code'
PylintIssueLines(out) == SelectSeq(out, LAMBDA l : l[1] = "msg")

FileScore_Unfloored(match) == match[2]
\* if file_score < 0: file_score = 0
FileScore(match) == IF RLt(match[2], R(0)) THEN R(0) ELSE match[2]

PythonAnalyzer_analyze_quality(dir, fs, env) ==
    LET python_files == MatchingFiles(dir, PYTHON_EXTENSIONS)
        n == Len(python_files)
        acc[i \in 0..n] ==
            IF i = 0
            THEN [issues |-> <<>>, total |-> R(0), exc |-> FALSE, nsub |-> 0]
            ELSE LET a == acc[i - 1]
                     out == env.runs[i].out
                     m == ScoreMatch(out)
                     msgs == PylintIssueLines(out)
                 IN  IF a.exc THEN a
                     ELSE IF Raises(env, i) \/ (m # <<>> /\ m[1] = "ratedbad")
                     THEN [a EXCEPT !.exc = TRUE, !.nsub = @ + 1]
                     ELSE [a EXCEPT
                             !.issues = @ \o [j \in 1..Len(msgs) |->
                                                Issue(msgs[j][1], python_files[i])],
                             !.total = IF m # <<>> THEN RAdd(@, FileScore(m)) ELSE @,
                             !.nsub = @ + 1]
        end == acc[n]
    IN  IF n = 0 THEN Ret(NoPythonFiles, 0, FALSE, fs)
        ELSE IF end.exc
        THEN Ret(OuterHandler(end.issues, "Error running pylint"),
                 end.nsub, TRUE, fs)
        ELSE Ret(MetricResult(RDiv(end.total, R(n)), end.issues),
                 end.nsub, FALSE, fs)

\* radon cc output lines: <<"file", 0>> the line naming the file,
\* <<"block", c>> a line 'F 1:0 name - A (c)' giving a block's
\* complexity c, <<"", 0>> the one line of an empty output.
RadonFile == <<"file", 0>>
RadonBlock(c) == <<"block", c>>
RadonOutputs ==
    {<<>>, <<RadonFile>>, <<RadonFile, RadonBlock(1)>>,
     <<RadonFile, RadonBlock(4), RadonBlock(1)>>,
     <<RadonFile, RadonBlock(MaxIssues)>>}
RadonEnvs(n) ==
    EnvsOf(n, {Run(e, o) : e \in Exits, o \in RadonOutputs} \cup {Decode})

RadonLines(out) == IF out = <<>> THEN << <<"", 0>> >> ELSE out

\* re.search(r'[A-F] \((\d+)\)', line) over the lines of one output:
\* the sum of the complexities and the number of lines that matched.
RECURSIVE ComplexitySum(_)
ComplexitySum(lines) ==
    IF lines = <<>> THEN 0
    ELSE (IF Head(lines)[1] = "block" THEN Head(lines)[2] ELSE 0)
         + ComplexitySum(Tail(lines))
ComplexityCount(lines) == Len(SelectSeq(lines, LAMBDA l : l[1] = "block"))

\* avg_complexity = complexity_sum / file_count if file_count else 0
PyComplexityFormula(complexity_sum, file_count) ==
    Clamp10(IF file_count # 0 THEN Rat(complexity_sum, file_count) ELSE R(0))

PythonAnalyzer_analyze_complexity(dir, fs, env) ==
    LET python_files == MatchingFiles(dir, PYTHON_EXTENSIONS)
        n == Len(python_files)
        acc[i \in 0..n] ==
            IF i = 0
            THEN [issues |-> <<>>, sum |-> 0, count |-> 0, exc |-> FALSE, nsub |-> 0]
            ELSE LET a == acc[i - 1]
                     lines == RadonLines(env.runs[i].out)
                 IN  IF a.exc THEN a
                     ELSE IF Raises(env, i)
                     THEN [a EXCEPT !.exc = TRUE, !.nsub = @ + 1]
                     ELSE IF lines[1][1] # ""
                     THEN [a EXCEPT
                             !.issues = @ \o [j \in 1..Len(lines) |->
                                                Issue(lines[j][1], python_files[i])],
                             !.sum = @ + ComplexitySum(lines),
                             !.count = @ + ComplexityCount(lines),
                             !.nsub = @ + 1]
                     ELSE [a EXCEPT !.nsub = @ + 1]
        end == acc[n]
    IN  IF n = 0 THEN Ret(NoPythonFiles, 0, FALSE, fs)
        ELSE IF end.exc
        THEN Ret(OuterHandler(end.issues, "Error running radon"),
                 end.nsub, TRUE, fs)
        ELSE Ret(MetricResult(PyComplexityFormula(end.sum, end.count), end.issues),
                 end.nsub, FALSE, fs)

\* bandit -r <directory> runs once.  Its output lines: "Issue",
\* "Severity", "Location" (a line holding that word followed by ':'),
\* "other" (any other line).
RECURSIVE RepSeq(_, _)
RepSeq(s, k) == IF k = 0 THEN <<>> ELSE s \o RepSeq(s, k - 1)
BanditReport(k) == <<"other">> \o RepSeq(<<"Issue", "Severity", "Location">>, k)
BanditOutputs ==
    {<<>>, <<"other">>, <<"Location">>, BanditReport(1), BanditReport(2),
     BanditReport(MaxIssues)}
BanditEnvs ==
    EnvsOf(1, {Run(e, o) : e \in Exits, o \in BanditOutputs} \cup {Decode})

BanditKept(out) ==
    SelectSeq(out, LAMBDA l : l \in {"Issue", "Location", "Severity"})

\* result['score'] = max(0, 10 - min(10, issue_count))
PySecurityFormula(issue_count) == Clamp10(R(issue_count))

PythonAnalyzer_analyze_security(dir, fs, env) ==
    LET python_files == MatchingFiles(dir, PYTHON_EXTENSIONS)
        n == Len(python_files)
        kept == BanditKept(env.runs[1].out)
        issues == IssuesOf(kept, <<>>)
        issue_count == Len(SelectSeq(kept, LAMBDA l : l = "Issue"))
    IN  IF n = 0 THEN Ret(NoPythonFiles, 0, FALSE, fs)
        ELSE IF Raises(env, 1)
        THEN Ret(OuterHandler(<<>>, "Error running bandit"),
                 1, TRUE, fs)
        ELSE IF kept = <<>>
        THEN Ret(MetricResult(R(10), <<Issue("No security issues found", <<>>)>>),
                 1, FALSE, fs)
        ELSE Ret(MetricResult(PySecurityFormula(issue_count), issues), 1, FALSE, fs)

(***************************************************************************)
(* JavaScriptAnalyzer (src/analyzers/javascript_analyzer.py).              *)
(*                                                                         *)
(* The output of a --format=json tool is what json.loads makes of it:      *)
(* kind "results" (the list the code expects, msgs its entries),           *)
(* "notjson" (JSONDecodeError), "badshape" (valid JSON that is an object   *)
(* and not a list, so that iterating it yields strings and .get raises     *)
(* AttributeError).  A message is <<ruleId, c>>, c the number in the       *)
(* text 'has a complexity of c' and 0 when the text has no such number.    *)
(***************************************************************************)
\* get_extensions without the TypeScript extensions.
JAVASCRIPT_ANALYZER_EXTENSIONS_NoTypeScript == JAVASCRIPT_EXTENSIONS

JAVASCRIPT_ANALYZER_EXTENSIONS == JAVASCRIPT_EXTENSIONS \o TYPESCRIPT_EXTENSIONS

NoJavaScriptFiles_Default ==
    MetricResult(R(10), <<Issue("No files found for this language", <<>>)>>)
NoJavaScriptFiles ==
    MetricResult(R(10), <<Issue("No JavaScript/TypeScript files found", <<>>)>>)

Json(kind, msgs) == [kind |-> kind, msgs |-> msgs]
NotJson == Json("notjson", <<>>)
BadShape == Json("badshape", <<>>)
Results(msgs) == Json("results", msgs)

LintMessage == <<"semi", 0>>
ESLintOutputs ==
    {Results(<<>>), Results(<<LintMessage>>), Results(Rep(LintMessage, MaxIssues)),
     NotJson, BadShape}
ESLintEnvs(n) ==
    EnvsOf(n, {Run(e, o) : e \in Exits, o \in ESLintOutputs} \cup {Decode})

\* The .eslintrc.json an operation finds or writes before its loop.
ConfigAtStart(fs, mine) == IF fs.eslintrc = "absent" THEN mine ELSE fs.eslintrc
JsStyleFormula(total_issues, n) == Clamp10(Rat(total_issues, n))

\* One pass of the per-file loop of analyze_style and analyze_quality:
\* err_ok is the issue text for unparseable output after exit 0, err_fail
\* the one after a non-zero exit.
LintLoop(js_files, env, err_ok, err_fail) ==
    LET n == Len(js_files)
        acc[i \in 0..n] ==
            IF i = 0
            THEN [issues |-> <<>>, total |-> 0, exc |-> FALSE, nsub |-> 0]
            ELSE LET a == acc[i - 1]
                     run == env.runs[i]
                 IN  IF a.exc THEN a
                     ELSE IF Raises(env, i) \/ run.out.kind = "badshape"
                     THEN [a EXCEPT !.exc = TRUE, !.nsub = @ + 1]
                     ELSE IF run.out.kind = "notjson"
                     THEN [a EXCEPT
                             !.issues = Append(@, Issue(IF run.exit = "ok" THEN err_ok
                                                        ELSE err_fail, js_files[i])),
                             !.nsub = @ + 1]
                     ELSE [a EXCEPT
                             !.issues = @ \o [j \in 1..Len(run.out.msgs) |->
                                                Issue(run.out.msgs[j][1], js_files[i])],
                             !.total = @ + Len(run.out.msgs),
                             !.nsub = @ + 1]
    IN  acc[n]

JavaScriptAnalyzer_analyze_style(dir, fs, env) ==
    LET js_files == MatchingFiles(dir, JAVASCRIPT_ANALYZER_EXTENSIONS)
        n == Len(js_files)
        config_created == fs.eslintrc = "absent"
        during == [fs EXCEPT !.eslintrc = ConfigAtStart(fs, "style")]
        after == IF config_created THEN [fs EXCEPT !.eslintrc = "absent"] ELSE fs
        end == LintLoop(js_files, env, "Error running ESLint on",
                        "Error parsing ESLint output for")
    IN  IF n = 0 THEN Ret(NoJavaScriptFiles, 0, FALSE, fs)
        ELSE IF end.exc
        THEN Ret(OuterHandler(end.issues, "Error running ESLint"),
                 end.nsub, TRUE, during)
        ELSE Ret(MetricResult(JsStyleFormula(end.total, n), end.issues),
                 end.nsub, FALSE, after)

\* result['score'] = max(0, 10 - min(10, avg_issues * 2))
JsQualityFormula(total_issues, n) == Clamp10(RMul(Rat(total_issues, n), R(2)))

JavaScriptAnalyzer_analyze_quality(dir, fs, env) ==
    LET js_files == MatchingFiles(dir, JAVASCRIPT_ANALYZER_EXTENSIONS)
        n == Len(js_files)
        end == LintLoop(js_files, env, "Error running JSHint on",
                        "Error parsing JSHint output for")
    IN  IF n = 0 THEN Ret(NoJavaScriptFiles, 0, FALSE, fs)
        ELSE IF end.exc
        THEN Ret(OuterHandler(end.issues, "Error running JSHint"),
                 end.nsub, TRUE, fs)
        ELSE Ret(MetricResult(JsQualityFormula(end.total, n), end.issues),
                 end.nsub, FALSE, fs)

Complexity(c) == <<"complexity", c>>
ComplexityOutputs ==
    {Results(<<>>), Results(<<LintMessage>>), Results(<<Complexity(MaxIssues)>>),
     Results(<<Complexity(MaxIssues), Complexity(3 * MaxIssues)>>),
     Results(<<Complexity(MaxIssues), Complexity(0)>>),
     NotJson, BadShape}
ComplexityEnvs(n) ==
    EnvsOf(n, {Run(e, o) : e \in Exits, o \in ComplexityOutputs} \cup {Decode})

\* The message loop over one file's results: the complexity messages
\* read before one whose text has no number (re.search gives None and
\* .group raises AttributeError), their sum, and whether that happened.
ComplexityMessages(msgs) ==
    LET k == Len(msgs)
        acc[j \in 0..k] ==
            IF j = 0 THEN [found |-> 0, sum |-> 0, err |-> FALSE]
            ELSE LET a == acc[j - 1]
                 IN  IF a.err \/ msgs[j][1] # "complexity" THEN a
                     ELSE IF msgs[j][2] = 0 THEN [a EXCEPT !.err = TRUE]
                     ELSE [a EXCEPT !.found = @ + 1, !.sum = @ + msgs[j][2]]
    IN  acc[k]

\* avg_complexity = total_complexity / file_count if file_count > 0 else 0
\* result['score'] = max(0, 10 - min(10, avg_complexity / 2))
JsComplexityFormula(total_complexity, file_count) ==
    Clamp10(RDiv(IF file_count > 0 THEN Rat(total_complexity, file_count) ELSE R(0),
                 R(2)))

JavaScriptAnalyzer_analyze_complexity(dir, fs, env) ==
    LET js_files == MatchingFiles(dir, JAVASCRIPT_ANALYZER_EXTENSIONS)
        n == Len(js_files)
        config_created == fs.eslintrc = "absent"
        during == [fs EXCEPT !.eslintrc = ConfigAtStart(fs, "complexity")]
        after == IF config_created THEN [fs EXCEPT !.eslintrc = "absent"] ELSE fs
        error(f) == Issue("Error analyzing complexity for", f)
        acc[i \in 0..n] ==
            IF i = 0
            THEN [issues |-> <<>>, total |-> 0, count |-> 0, exc |-> FALSE, nsub |-> 0]
            ELSE LET a == acc[i - 1]
                     run == env.runs[i]
                     m == ComplexityMessages(run.out.msgs)
                     found == Rep(Issue("complexity", js_files[i]), m.found)
                 IN  IF a.exc THEN a
                     \* npm install (check=False), then npx eslint
                     ELSE IF ~env.installed
                     THEN [a EXCEPT !.exc = TRUE, !.nsub = @ + 1]
                     ELSE IF run.exit = "decode"
                     THEN [a EXCEPT !.exc = TRUE, !.nsub = @ + 2]
                     ELSE IF run.exit = "fail" \/ run.out.kind # "results"
                     THEN [a EXCEPT !.issues = Append(@, error(js_files[i])),
                                    !.nsub = @ + 2]
                     ELSE IF m.err
                     THEN [a EXCEPT !.issues = Append(@ \o found, error(js_files[i])),
                                    !.total = @ + m.sum,
                                    !.nsub = @ + 2]
                     ELSE [a EXCEPT !.issues = @ \o found,
                                    !.total = @ + m.sum,
                                    !.count = @ + (IF m.found > 0 THEN 1 ELSE 0),
                                    !.nsub = @ + 2]
        end == acc[n]
    IN  IF n = 0 THEN Ret(NoJavaScriptFiles, 0, FALSE, fs)
        ELSE IF end.exc
        THEN Ret(OuterHandler(end.issues, "Error analyzing complexity"),
                 end.nsub, TRUE, during)
        ELSE Ret(MetricResult(JsComplexityFormula(end.total, end.count), end.issues),
                 end.nsub, FALSE, after)

\* npm audit --json runs once, in the directory.  An entry of its
\* 'vulnerabilities' object is <<severity, count>>; severity "" when the
\* entry has no 'severity' key.
Vulnerability(severity, count) == <<severity, count>>
AuditOutputs ==
    {Results(<<>>), Results(<<Vulnerability("high", 0)>>),
     Results(<<Vulnerability("low", 1)>>), Results(<<Vulnerability("info", 1)>>),
     Results(<<Vulnerability("", 2)>>),
     Results(<<Vulnerability("critical", 1), Vulnerability("moderate", 1)>>),
     Results(<<Vulnerability("high", MaxIssues)>>),
     NotJson, BadShape}
AuditEnvs ==
    EnvsOf(1, {Run(e, o) : e \in Exits, o \in AuditOutputs} \cup {Decode})

\* severity_weights.get(severity, 1), severity defaulting to 'low'
SeverityWeight(severity) ==
    CASE severity = "critical" -> 4
      [] severity = "high" -> 3
      [] severity = "moderate" -> 2
      [] severity = "low" -> 1
      [] OTHER -> 1

RECURSIVE TotalCount(_)
TotalCount(vulns) ==
    IF vulns = <<>> THEN 0 ELSE Head(vulns)[2] + TotalCount(Tail(vulns))

RECURSIVE WeightedIssues(_)
WeightedIssues(vulns) ==
    IF vulns = <<>> THEN 0
    ELSE Head(vulns)[2] * SeverityWeight(Head(vulns)[1]) + WeightedIssues(Tail(vulns))

JsSecurityFormula_Whole(weighted_issues) == Clamp10(R(weighted_issues))
\* result['score'] = max(0, 10 - min(10, weighted_issues / 2))
JsSecurityFormula(weighted_issues) == Clamp10(Rat(weighted_issues, 2))

\* f"Found {count} {severity} severity vulnerability(ies) in {vuln_name}"
VulnerabilityIssue(v) == Issue(IF v[1] = "" THEN "unknown" ELSE v[1], <<v[2]>>)

JavaScriptAnalyzer_analyze_security(dir, fs, env) ==
    LET js_files == MatchingFiles(dir, JAVASCRIPT_ANALYZER_EXTENSIONS)
        n == Len(js_files)
        run == env.runs[1]
        vulns == run.out.msgs
        issues == [j \in 1..Len(vulns) |-> VulnerabilityIssue(vulns[j])]
    IN  IF n = 0 THEN Ret(NoJavaScriptFiles, 0, FALSE, fs)
        ELSE IF ~fs.package_json
        THEN Ret(MetricResult(R(5),
                     <<Issue("No package.json found, skipping security audit", <<>>)>>),
                 0, FALSE, fs)
        ELSE IF Raises(env, 1) \/ (run.exit = "ok" /\ run.out.kind = "badshape")
        THEN Ret(OuterHandler(<<>>, "Error in security analysis"),
                 1, TRUE, fs)
        ELSE IF run.exit = "fail" \/ run.out.kind = "notjson"
        THEN Ret(MetricResult(R(0), <<Issue("Error running npm audit", <<>>)>>),
                 1, FALSE, fs)
        ELSE IF TotalCount(vulns) = 0
        THEN Ret(MetricResult(R(10),
                     Append(issues, Issue("No security vulnerabilities found", <<>>))),
                 1, FALSE, fs)
        ELSE Ret(MetricResult(JsSecurityFormula(WeightedIssues(vulns)), issues),
                 1, FALSE, fs)

(***************************************************************************)
(* JavaAnalyzer (src/analyzers/java_analyzer.py).                          *)
(***************************************************************************)
NoJavaFiles == MetricResult(R(10), <<Issue("No Java files found", <<>>)>>)

WithJar(env, jar) == [installed |-> env.installed, runs |-> env.runs, jar |-> jar]

\* Checkstyle output lines: "[ERROR]" (a line that starts so), "other".
CheckstyleOutputs ==
    {<<>>, <<"other">>, <<"other", "[ERROR]", "other">>,
     <<"other">> \o Rep("[ERROR]", MaxIssues)}
\* env.jar: ~/checkstyle.jar exists; env.installed: the java executable.
CheckstyleEnvs(n) ==
    {WithJar(e, TRUE) :
        e \in EnvsOf(n, {Run(x, o) : x \in Exits, o \in CheckstyleOutputs}
                        \cup {Decode})}
    \cup {[installed |-> TRUE, runs |-> [i \in 1..n |-> Decode], jar |-> FALSE]}

ErrorLines(out) == SelectSeq(out, LAMBDA l : l = "[ERROR]")

JavaStyleFormula(total_issues, n) == Clamp10(Rat(total_issues, n))

\* os.unlink(temp_config.name), reached only when the loop ends normally
JavaStyleCleanup(fs) == [fs EXCEPT !.tmp = @ \ {"checkstyle.xml"}]

JavaAnalyzer_analyze_style(dir, fs, env) ==
    LET java_files == MatchingFiles(dir, JAVA_EXTENSIONS)
        n == Len(java_files)
        during == [fs EXCEPT !.tmp = @ \cup {"checkstyle.xml"}]
        acc[i \in 0..n] ==
            IF i = 0
            THEN [issues |-> <<>>, total |-> 0, exc |-> FALSE, nsub |-> 0]
            ELSE LET a == acc[i - 1]
                     found == ErrorLines(env.runs[i].out)
                 IN  IF a.exc THEN a
                     ELSE IF Raises(env, i)
                     THEN [a EXCEPT !.exc = TRUE, !.nsub = @ + 1]
                     ELSE [a EXCEPT !.issues = @ \o IssuesOf(found, java_files[i]),
                                    !.total = @ + Len(found),
                                    !.nsub = @ + 1]
        end == acc[n]
    IN  IF n = 0 THEN Ret(NoJavaFiles, 0, FALSE, fs)
        ELSE IF ~env.jar
        THEN Ret(MetricResult(R(5), <<Issue("Checkstyle JAR not found", <<>>)>>),
                 0, FALSE, during)
        ELSE IF end.exc
        THEN Ret(OuterHandler(end.issues, "Error running Checkstyle"),
                 end.nsub, TRUE, during)
        ELSE Ret(MetricResult(JavaStyleFormula(end.total, n), end.issues),
                 end.nsub, FALSE, JavaStyleCleanup(during))

\* PMD output lines: "violation", "Usage:" (a line that starts with
\* 'Usage:' or 'Options:'), "" (the one line of an empty output).
PMDOutputs ==
    {<<>>, <<"violation">>, <<"Usage:", "violation">>, Rep("violation", MaxIssues)}
\* env.version: how 'pmd --version' ended; env.runs[1]: 'pmd check'.
PMDEnvs ==
    {[installed |-> FALSE, version |-> "ok", runs |-> <<Decode>>]}
    \cup {[installed |-> TRUE, version |-> v, runs |-> <<Decode>>] :
            v \in {"fail", "decode"}}
    \cup {[installed |-> TRUE, version |-> "ok", runs |-> <<r>>] :
            r \in {Run(x, o) : x \in Exits, o \in PMDOutputs} \cup {Decode}}

\* The lines counted as issues after exit 0 ...
PMDLinesOk(out) == IF out = <<>> THEN <<>> ELSE out
\* ... and after a non-zero exit
PMDLinesFail(out) ==
    SelectSeq(IF out = <<>> THEN <<"">> ELSE out, LAMBDA l : l # "Usage:")

JavaQualityFormula(total_issues, n) == Clamp10(Rat(total_issues, n))

JavaAnalyzer_analyze_quality(dir, fs, env) ==
    LET java_files == MatchingFiles(dir, JAVA_EXTENSIONS)
        n == Len(java_files)
        during == [fs EXCEPT !.tmp = @ \cup {"file_list"}]
        after == [during EXCEPT !.tmp = @ \ {"file_list"}]
        run == env.runs[1]
        lines == IF run.exit = "ok" THEN PMDLinesOk(run.out) ELSE PMDLinesFail(run.out)
    IN  IF n = 0 THEN Ret(NoJavaFiles, 0, FALSE, fs)
        ELSE IF ~env.installed \/ env.version = "fail"
        THEN Ret(MetricResult(R(5),
                     <<Issue("PMD not found, skipping quality analysis", <<>>)>>),
                 1, FALSE, fs)
        ELSE IF env.version = "decode"
        THEN Ret(OuterHandler(<<>>, "Error running PMD"),
                 1, TRUE, fs)
        ELSE IF run.exit = "decode"
        THEN Ret(OuterHandler(<<>>, "Error running PMD"),
                 2, TRUE, during)
        ELSE Ret(MetricResult(JavaQualityFormula(Len(lines), n),
                              IssuesOf(lines, <<>>)),
                 2, FALSE, after)

\* What analyze_complexity reads in one file: the number of branch
\* statements its five regular expressions find and the number of lines
\* len(content.split('\n')); exit "decode" when open/read raises.
Content(branches, lines) == [branches |-> branches, lines |-> lines]
JavaContents ==
    {Content(0, 1), Content(1, 100), Content(3, 50), Content(1, 300),
     Content(MaxIssues, 10)}
JavaReadEnvs(n) ==
    {[installed |-> TRUE, runs |-> r] :
        r \in [1..n -> {Run("ok", c) : c \in JavaContents} \cup {Decode}]}

\* file_complexity = complexity / (len(content.split('\n')) / 100)
FileComplexity(content) == RDiv(R(content.branches), Rat(content.lines, 100))

JavaComplexityFormula_Whole(total_complexity, file_count) ==
    Clamp10(RDiv(total_complexity, R(file_count)))
\* result['score'] = max(0, 10 - min(10, avg_complexity / 2))
JavaComplexityFormula(total_complexity, file_count) ==
    Clamp10(RDiv(RDiv(total_complexity, R(file_count)), R(2)))

JavaAnalyzer_analyze_complexity(dir, fs, env) ==
    LET java_files == MatchingFiles(dir, JAVA_EXTENSIONS)
        n == Len(java_files)
        acc[i \in 0..n] ==
            IF i = 0 THEN [issues |-> <<>>, total |-> R(0), count |-> 0]
            ELSE LET a == acc[i - 1]
                     run == env.runs[i]
                 IN  IF run.exit = "decode"
                     THEN [a EXCEPT !.issues = Append(@,
                              Issue("Error analyzing complexity for", java_files[i]))]
                     ELSE IF run.out.branches > 0
                     THEN [a EXCEPT !.issues = Append(@,
                              Issue("Estimated complexity", java_files[i])),
                                    !.total = RAdd(@, FileComplexity(run.out)),
                                    !.count = @ + 1]
                     ELSE a
        end == acc[n]
    IN  IF n = 0 THEN Ret(NoJavaFiles, 0, FALSE, fs)
        ELSE IF end.count = 0
        THEN Ret(MetricResult(R(10),
                     Append(end.issues, Issue("No complexity issues found", <<>>))),
                 0, FALSE, fs)
        ELSE Ret(MetricResult(JavaComplexityFormula(end.total, end.count), end.issues),
                 0, FALSE, fs)

\* The regex scan of analyze_security reads in one file, for each of its
\* patterns that matches, <<issue_type, occurrences>>.
Finding(issue_type, occurrences) == <<issue_type, occurrences>>
ScanContents ==
    {<<>>, <<Finding("Potential command injection", 1)>>,
     <<Finding("Potential command injection", 1), Finding("Potential SQL injection", 2)>>,
     <<Finding("Debug information leakage", 2 * MaxIssues)>>}
\* SpotBugs output lines: "Warnings generated:" (a line that starts so),
\* "warning" (a non-blank line), "other" (a non-blank line before it).
SpotBugsOutputs ==
    {<<>>, <<"other">>, <<"other", "Warnings generated:", "warning">>,
     <<"Warnings generated:">> \o Rep("warning", 2 * MaxIssues)}
\* env.jar: ~/spotbugs/lib/spotbugs.jar exists; env.installed: javac and
\* java; env.javac[i]: the exit of javac on file i; env.runs[1]: SpotBugs;
\* env.reads[i]: what the regex scan reads in file i.
JavaSecurityEnvs(n) ==
    {[jar |-> FALSE, installed |-> TRUE, javac |-> [i \in 1..n |-> "ok"],
      runs |-> <<Decode>>, reads |-> r] :
        r \in [1..n -> {Run("ok", c) : c \in ScanContents} \cup {Decode}]}
    \cup {[jar |-> TRUE, installed |-> FALSE, javac |-> [i \in 1..n |-> "ok"],
           runs |-> <<Decode>>, reads |-> [i \in 1..n |-> Decode]]}
    \cup {[jar |-> TRUE, installed |-> TRUE, javac |-> j, runs |-> <<r>>,
           reads |-> [i \in 1..n |-> Decode]] :
            j \in [1..n -> Exits],
            r \in {Run(x, o) : x \in Exits, o \in SpotBugsOutputs} \cup {Decode}}

RECURSIVE Occurrences(_)
Occurrences(findings) ==
    IF findings = <<>> THEN 0 ELSE Head(findings)[2] + Occurrences(Tail(findings))

\* result['score'] = max(0, 10 - min(10, total_issues / 2))
JavaScanFormula(total_issues) == Clamp10(Rat(total_issues, 2))
\* result['score'] = max(0, 10 - min(10, issue_count / 2))
SpotBugsFormula(issue_count) == Clamp10(Rat(issue_count, 2))

\* The lines kept from a SpotBugs output: the non-blank lines from the
\* one holding 'Warnings generated:' on, without the lines starting so.
RECURSIVE SpotBugsKept(_, _)
SpotBugsKept(lines, issues_found) ==
    IF lines = <<>> THEN <<>>
    ELSE LET found == issues_found \/ Head(lines) = "Warnings generated:"
         IN  (IF found /\ Head(lines) # "Warnings generated:"
              THEN <<Head(lines)>> ELSE <<>>)
             \o SpotBugsKept(Tail(lines), found)

\* shutil.rmtree(class_dir, ignore_errors=True)
JavaSecurityCleanup(fs) == [fs EXCEPT !.tmp = @ \ {"class_dir"}]

JavaAnalyzer_analyze_security(dir, fs, env) ==
    LET java_files == MatchingFiles(dir, JAVA_EXTENSIONS)
        n == Len(java_files)
        scan[i \in 0..n] ==
            IF i = 0
            THEN [issues |-> <<Issue("SpotBugs JAR not found", <<>>)>>, total |-> 0]
            ELSE LET a == scan[i - 1]
                     read == env.reads[i]
                 IN  IF read.exit = "decode"
                     THEN [a EXCEPT !.issues = Append(@,
                              Issue("Error analyzing security for", java_files[i]))]
                     ELSE [a EXCEPT
                             !.issues = @ \o [j \in 1..Len(read.out) |->
                                                Issue(read.out[j][1], java_files[i])],
                             !.total = @ + Occurrences(read.out)]
        scanned == scan[n]
        during == [fs EXCEPT !.tmp = @ \cup {"class_dir"}]
        run == env.runs[1]
        kept == SpotBugsKept(run.out, FALSE)
    IN  IF n = 0 THEN Ret(NoJavaFiles, 0, FALSE, fs)
        ELSE IF ~env.jar
        THEN IF scanned.total = 0
             THEN Ret(MetricResult(R(10),
                          Append(scanned.issues, Issue("No security issues found", <<>>))),
                      0, FALSE, fs)
             ELSE Ret(MetricResult(JavaScanFormula(scanned.total), scanned.issues),
                      0, FALSE, fs)
        ELSE IF ~env.installed
        THEN Ret(OuterHandler(<<>>, "Error in security analysis"),
                 1, TRUE, during)
        ELSE IF run.exit = "decode"
        THEN Ret(OuterHandler(<<>>, "Error in security analysis"),
                 n + 1, TRUE, during)
        ELSE IF run.exit = "fail"
        THEN Ret(MetricResult(R(0), <<Issue("Error running SpotBugs", <<>>)>>),
                 n + 1, FALSE, JavaSecurityCleanup(during))
        ELSE IF kept = <<>>
        THEN Ret(MetricResult(R(10), <<Issue("No security issues found", <<>>)>>),
                 n + 1, FALSE, JavaSecurityCleanup(during))
        ELSE Ret(MetricResult(SpotBugsFormula(Len(kept)), IssuesOf(kept, <<>>)),
                 n + 1, FALSE, JavaSecurityCleanup(during))

(***************************************************************************)
(* Dispatch of the twelve operations.                                      *)
(***************************************************************************)
Analyzers == {"PythonAnalyzer", "JavaScriptAnalyzer", "JavaAnalyzer"}
METRICS_QualityFirst == <<"quality", "style", "complexity", "security">>
METRICS == <<"style", "quality", "complexity", "security">>

ExtensionsOf(analyzer) ==
    CASE analyzer = "PythonAnalyzer" -> PYTHON_EXTENSIONS
      [] analyzer = "JavaScriptAnalyzer" -> JAVASCRIPT_ANALYZER_EXTENSIONS
      [] analyzer = "JavaAnalyzer" -> JAVA_EXTENSIONS

\* analyzer.analyze_<metric>(directory)
Analyze(analyzer, metric, dir, fs, env) ==
    CASE analyzer = "PythonAnalyzer" /\ metric = "style" ->
            PythonAnalyzer_analyze_style(dir, fs, env)
      [] analyzer = "PythonAnalyzer" /\ metric = "quality" ->
            PythonAnalyzer_analyze_quality(dir, fs, env)
      [] analyzer = "PythonAnalyzer" /\ metric = "complexity" ->
            PythonAnalyzer_analyze_complexity(dir, fs, env)
      [] analyzer = "PythonAnalyzer" /\ metric = "security" ->
            PythonAnalyzer_analyze_security(dir, fs, env)
      [] analyzer = "JavaScriptAnalyzer" /\ metric = "style" ->
            JavaScriptAnalyzer_analyze_style(dir, fs, env)
      [] analyzer = "JavaScriptAnalyzer" /\ metric = "quality" ->
            JavaScriptAnalyzer_analyze_quality(dir, fs, env)
      [] analyzer = "JavaScriptAnalyzer" /\ metric = "complexity" ->
            JavaScriptAnalyzer_analyze_complexity(dir, fs, env)
      [] analyzer = "JavaScriptAnalyzer" /\ metric = "security" ->
            JavaScriptAnalyzer_analyze_security(dir, fs, env)
      [] analyzer = "JavaAnalyzer" /\ metric = "style" ->
            JavaAnalyzer_analyze_style(dir, fs, env)
      [] analyzer = "JavaAnalyzer" /\ metric = "quality" ->
            JavaAnalyzer_analyze_quality(dir, fs, env)
      [] analyzer = "JavaAnalyzer" /\ metric = "complexity" ->
            JavaAnalyzer_analyze_complexity(dir, fs, env)
      [] analyzer = "JavaAnalyzer" /\ metric = "security" ->
            JavaAnalyzer_analyze_security(dir, fs, env)

\* What the tools can do when the operation runs over n matching files.
Envs(analyzer, metric, n) ==
    CASE analyzer = "PythonAnalyzer" /\ metric = "style" -> Flake8Envs(n)
      [] analyzer = "PythonAnalyzer" /\ metric = "quality" -> PylintEnvs(n)
      [] analyzer = "PythonAnalyzer" /\ metric = "complexity" -> RadonEnvs(n)
      [] analyzer = "PythonAnalyzer" /\ metric = "security" -> BanditEnvs
      [] analyzer = "JavaScriptAnalyzer" /\ metric = "style" -> ESLintEnvs(n)
      [] analyzer = "JavaScriptAnalyzer" /\ metric = "quality" -> ESLintEnvs(n)
      [] analyzer = "JavaScriptAnalyzer" /\ metric = "complexity" -> ComplexityEnvs(n)
      [] analyzer = "JavaScriptAnalyzer" /\ metric = "security" -> AuditEnvs
      [] analyzer = "JavaAnalyzer" /\ metric = "style" -> CheckstyleEnvs(n)
      [] analyzer = "JavaAnalyzer" /\ metric = "quality" -> PMDEnvs
      [] analyzer = "JavaAnalyzer" /\ metric = "complexity" -> JavaReadEnvs(n)
      [] analyzer = "JavaAnalyzer" /\ metric = "security" -> JavaSecurityEnvs(n)

(***************************************************************************)
(* The aggregator (src/app.py).                                            *)
(***************************************************************************)
\* os.path.splitext(file)[1]: from the last dot on, unless only dots
\* come before it.
RECURSIVE LastDot(_, _)
LastDot(name, i) ==
    IF i = 0 THEN 0 ELSE IF name[i] = "." THEN i ELSE LastDot(name, i - 1)

SplitExt(name) ==
    LET dot == LastDot(name, Len(name))
    IN  IF dot > 0 /\ \E j \in 1..(dot - 1) : name[j] # "."
        THEN SubSeq(name, dot, Len(name))
        ELSE <<>>

LANGUAGE_BY_EXTENSION ==
    << <<<<".", "p", "y">>, "Python">>,
       <<<<".", "j", "s">>, "JavaScript">>,
       <<<<".", "j", "s", "x">>, "JavaScript">>,
       <<<<".", "t", "s">>, "TypeScript">>,
       <<<<".", "t", "s", "x">>, "TypeScript">>,
       <<<<".", "j", "a", "v", "a">>, "Java">>,
       <<<<".", "c", "p", "p">>, "C/C++">>,
       <<<<".", "c", "c">>, "C/C++">>,
       <<<<".", "c", "x", "x">>, "C/C++">>,
       <<<<".", "c">>, "C/C++">>,
       <<<<".", "h">>, "C/C++">>,
       <<<<".", "h", "p", "p">>, "C/C++">>,
       <<<<".", "g", "o">>, "Go">>,
       <<<<".", "r", "b">>, "Ruby">>,
       <<<<".", "p", "h", "p">>, "PHP">>,
       <<<<".", "c", "s">>, "C#">> >>

ALL_EXTENSIONS == {LANGUAGE_BY_EXTENSION[i][1] : i \in 1..Len(LANGUAGE_BY_EXTENSION)}

\* LANGUAGE_BY_EXTENSION.get(file_extension, "Unknown")
get_language_name(file_extension) ==
    IF file_extension \in ALL_EXTENSIONS
    THEN LET i == CHOOSE j \in 1..Len(LANGUAGE_BY_EXTENSION) :
                     LANGUAGE_BY_EXTENSION[j][1] = file_extension
         IN  LANGUAGE_BY_EXTENSION[i][2]
    ELSE "Unknown"

get_language_analyzer_NoTypeScript(file_extension) ==
    IF file_extension \in {<<".", "p", "y">>} THEN "PythonAnalyzer"
    ELSE IF file_extension \in {<<".", "j", "s">>, <<".", "j", "s", "x">>}
    THEN "JavaScriptAnalyzer"
    ELSE IF file_extension \in {<<".", "j", "a", "v", "a">>} THEN "JavaAnalyzer"
    ELSE "None"
get_language_analyzer(file_extension) ==
    IF file_extension \in {<<".", "p", "y">>} THEN "PythonAnalyzer"
    ELSE IF file_extension \in {<<".", "j", "s">>, <<".", "j", "s", "x">>,
                                <<".", "t", "s">>, <<".", "t", "s", "x">>}
    THEN "JavaScriptAnalyzer"
    ELSE IF file_extension \in {<<".", "j", "a", "v", "a">>} THEN "JavaAnalyzer"
    ELSE "None"

InitialMetric == MetricResult(R(0), <<>>)

\* The files of the directory the first loop of analyze_directory keeps,
\* in walk order.
Recognized(dir) ==
    SelectSeq(FileOrder, LAMBDA f : f \in dir /\ SplitExt(f) \in ALL_EXTENSIONS)

LanguageOf_ByAnalyzer(file) ==
    IF get_language_name(SplitExt(file)) = "TypeScript" THEN "JavaScript"
    ELSE get_language_name(SplitExt(file))
LanguageOf(file) == get_language_name(SplitExt(file))

\* The keys of language_metrics in insertion order.
RECURSIVE LanguageOrder(_, _)
LanguageOrder(files, seen) ==
    IF files = <<>> THEN <<>>
    ELSE IF LanguageOf(Head(files)) \in seen THEN LanguageOrder(Tail(files), seen)
    ELSE <<LanguageOf(Head(files))>>
         \o LanguageOrder(Tail(files), seen \cup {LanguageOf(Head(files))})

\* language_metrics after the first loop of analyze_directory.
Classify(dir) ==
    LET files == Recognized(dir)
    IN  [language \in Range(LanguageOrder(files, {})) |->
            [files |-> SelectSeq(files, LAMBDA f : LanguageOf(f) = language),
             style |-> InitialMetric, quality |-> InitialMetric,
             complexity |-> InitialMetric, security |-> InitialMetric]]

\* analyzer = get_language_analyzer(splitext(data['files'][0])[1])
AnalyzerFor(data) == get_language_analyzer(SplitExt(data.files[1]))

(***************************************************************************)
(* The report (src/app.py, generate_report and get_rating).                *)
(*                                                                         *)
(* A text f"{x:.1f}" is the number of tenths it shows: 98 for '9.8'.       *)
(* A line of a detail section is <<"bullet", issue>>, <<"more", N>> for    *)
(* '... and N more issues' or <<"none", 0>> for 'No issues found.'.        *)
(***************************************************************************)
IssueLimit == 20

\* f"{x:.1f}": the nearest tenth, the even one of two equally near.
Format1(x) ==
    LET n == 10 * Abs(x[1])
        q == n \div x[2]
        r == n % x[2]
        tenths == IF 2 * r < x[2] THEN q
                  ELSE IF 2 * r > x[2] THEN q + 1
                  ELSE IF q % 2 = 0 THEN q ELSE q + 1
    IN  IF x[1] < 0 THEN 0 - tenths ELSE tenths

\* The thresholds compared with > in place of >=.
get_rating_Strict(score) ==
    IF RLt(R(9), score) THEN "Excellent"
    ELSE IF RLt(R(7), score) THEN "Good"
    ELSE IF RLt(R(5), score) THEN "Average"
    ELSE IF RLt(R(3), score) THEN "Poor"
    ELSE "Very Poor"

get_rating(score) ==
    IF RLe(R(9), score) THEN "Excellent"
    ELSE IF RLe(R(7), score) THEN "Good"
    ELSE IF RLe(R(5), score) THEN "Average"
    ELSE IF RLe(R(3), score) THEN "Poor"
    ELSE "Very Poor"

\* The mean as the table shows it.
OverallScore_Displayed(metrics) ==
    Rat(Format1(RDiv(RAdd(RAdd(metrics.style.score, metrics.quality.score),
                          RAdd(metrics.complexity.score, metrics.security.score)),
                     R(4))), 10)

\* overall_score = (style_score + quality_score + complexity_score
\*                  + security_score) / 4
OverallScore(metrics) ==
    RDiv(RAdd(RAdd(metrics.style.score, metrics.quality.score),
              RAdd(metrics.complexity.score, metrics.security.score)), R(4))

SummaryHeader ==
    <<"Language", "Files", "Style", "Quality", "Complexity", "Security", "Overall">>

\* The row data.append(...) adds for one language.
LanguageRow(language, metrics) ==
    <<language, Len(metrics.files), Format1(metrics.style.score),
      Format1(metrics.quality.score), Format1(metrics.complexity.score),
      Format1(metrics.security.score), Format1(OverallScore(metrics))>>

\* overall_scores after the rows of the first k languages.
RECURSIVE OverallScores(_, _, _)
OverallScores(metrics_by_language, languages, k) ==
    IF k = 0
    THEN [style |-> R(0), quality |-> R(0), complexity |-> R(0),
          security |-> R(0), overall |-> R(0)]
    ELSE LET sums == OverallScores(metrics_by_language, languages, k - 1)
             metrics == metrics_by_language[languages[k]]
         IN  [style |-> RAdd(sums.style, metrics.style.score),
              quality |-> RAdd(sums.quality, metrics.quality.score),
              complexity |-> RAdd(sums.complexity, metrics.complexity.score),
              security |-> RAdd(sums.security, metrics.security.score),
              overall |-> RAdd(sums.overall, OverallScore(metrics))]

RECURSIVE TotalFiles(_, _, _)
TotalFiles(metrics_by_language, languages, k) ==
    IF k = 0 THEN 0
    ELSE Len(metrics_by_language[languages[k]].files)
         + TotalFiles(metrics_by_language, languages, k - 1)

\* The row appended when total_languages > 1.
OverallRow(metrics_by_language, languages) ==
    LET total_languages == Len(languages)
        sums == OverallScores(metrics_by_language, languages, total_languages)
    IN  <<"Overall", TotalFiles(metrics_by_language, languages, total_languages),
          Format1(RDiv(sums.style, R(total_languages))),
          Format1(RDiv(sums.quality, R(total_languages))),
          Format1(RDiv(sums.complexity, R(total_languages))),
          Format1(RDiv(sums.security, R(total_languages))),
          Format1(RDiv(sums.overall, R(total_languages)))>>

\* The table with an Overall row from one language on.
SummaryTable_FromOne(metrics_by_language, languages) ==
    <<SummaryHeader>>
    \o [k \in 1..Len(languages) |->
            LanguageRow(languages[k], metrics_by_language[languages[k]])]
    \o (IF Len(languages) >= 1
        THEN <<OverallRow(metrics_by_language, languages)>> ELSE <<>>)

\* data, the rows of the summary table.
SummaryTable(metrics_by_language, languages) ==
    <<SummaryHeader>>
    \o [k \in 1..Len(languages) |->
            LanguageRow(languages[k], metrics_by_language[languages[k]])]
    \o (IF Len(languages) > 1
        THEN <<OverallRow(metrics_by_language, languages)>> ELSE <<>>)

\* The paragraphs with the line of the remaining issues from the limit on.
IssueLines_FromLimit(issues) ==
    IF issues = <<>> THEN << <<"none", 0>> >>
    ELSE [j \in 1..(IF Len(issues) < IssueLimit THEN Len(issues) ELSE IssueLimit) |->
            <<"bullet", issues[j]>>]
         \o (IF Len(issues) >= IssueLimit
             THEN << <<"more", Len(issues) - IssueLimit>> >> ELSE <<>>)

\* The paragraphs under 'Issues:' of one metric.
IssueLines(issues) ==
    IF issues = <<>> THEN << <<"none", 0>> >>
    ELSE [j \in 1..(IF Len(issues) < IssueLimit THEN Len(issues) ELSE IssueLimit) |->
            <<"bullet", issues[j]>>]
         \o (IF Len(issues) > IssueLimit
             THEN << <<"more", Len(issues) - IssueLimit>> >> ELSE <<>>)

\* The section of one metric: its score line and its issues.
MetricSection(metric_data) ==
    [score |-> Format1(metric_data.score), rating |-> get_rating(metric_data.score),
     lines |-> IssueLines(metric_data.issues)]

\* The part of the document for one language.
LanguageSection(language, metrics) ==
    LET overall == RDiv(RAdd(RAdd(RAdd(metrics.style.score, metrics.quality.score),
                                  metrics.complexity.score),
                             metrics.security.score), R(4))
    IN
    [language |-> language,
     files_analyzed |-> Len(metrics.files),
     overall |-> Format1(overall),
     overall_rating |-> get_rating(overall),
     style |-> MetricSection(metrics.style),
     quality |-> MetricSection(metrics.quality),
     complexity |-> MetricSection(metrics.complexity),
     security |-> MetricSection(metrics.security)]

\* The document generate_report builds, with the totals it accumulated.
Document(metrics_by_language, languages) ==
    [data |-> SummaryTable(metrics_by_language, languages),
     overall_scores |-> OverallScores(metrics_by_language, languages, Len(languages)),
     sections |-> [k \in 1..Len(languages) |->
                    LanguageSection(languages[k], metrics_by_language[languages[k]])]]

\* The issue lists cut in place to the entries the report shows.
AfterRender_Truncated(metrics_by_language) ==
    LET Cut(issues) ==
            SubSeq(issues, 1, IF Len(issues) < IssueLimit THEN Len(issues) ELSE IssueLimit)
    IN  [language \in DOMAIN metrics_by_language |->
            [metrics_by_language[language] EXCEPT
                !.style.issues = Cut(@), !.quality.issues = Cut(@),
                !.complexity.issues = Cut(@), !.security.issues = Cut(@)]]

\* language_metrics when generate_report returns: the function reads it,
\* metric_data['issues'][:20] is a copy.
AfterRender(metrics_by_language) == metrics_by_language

(***************************************************************************)
(* State.                                                                  *)
(***************************************************************************)
VARIABLES
    directory,          \* the names of the files under the analysed directory
    fs,                 \* .eslintrc.json, package.json and the temporary files
    pc,                 \* "idle", "returned": an operation is called directly;
                        \* "start", "analyze", "done": analyze_directory;
                        \* "report", "rendered", "rated": the report;
                        \* "request", "responded": a request handler
    queue,              \* the languages analyze_directory has still to analyse;
                        \* for the report, the keys of language_metrics in order
    metric,             \* the index in METRICS of the next metric of Head(queue)
    language_metrics,   \* analyze_directory's language_metrics
    trace,              \* the operations analyze_directory has called
    last,               \* the last operation: its inputs and what it returned
    report,             \* what generate_report was given and what it built
    rating,             \* get_rating's argument and what it returned
    http                \* a request, the functions its handler has called
                        \* and the response

vars ==
    <<directory, fs, pc, queue, metric, language_metrics, trace, last, report, rating,
      http>>

Matching(analyzer) == MatchingFiles(directory, ExtensionsOf(analyzer))

NoCall ==
    [analyzer |-> "", metric |-> "", n |-> 0,
     env |-> [installed |-> TRUE, runs |-> <<>>], before |-> FileSystem("absent", FALSE, {}),
     ret |-> Ret(InitialMetric, 0, FALSE, FileSystem("absent", FALSE, {}))]

NoReport == [input |-> <<>>, languages |-> <<>>, document |-> Document(<<>>, <<>>)]

NoRating == [score |-> R(0), rating |-> ""]

NoResponse == [kind |-> "none", error |-> ""]

NoRequest == [request |-> [endpoint |-> ""], calls |-> <<>>, response |-> NoResponse]

FileSystems == {FileSystem(rc, pkg, {}) : rc \in {"absent", "user"}, pkg \in BOOLEAN}

\* An analyzer object and a directory, before one of its operations is
\* called on it.
Init ==
    /\ directory \in Directories
    /\ fs \in FileSystems
    /\ pc = "idle"
    /\ queue = <<>>
    /\ metric = 1
    /\ language_metrics = <<>>
    /\ trace = <<>>
    /\ last = NoCall
    /\ report = NoReport
    /\ rating = NoRating
    /\ http = NoRequest

\* analyze_directory(directory) is entered.
InitRun ==
    /\ directory \in Directories
    /\ fs \in FileSystems
    /\ pc = "start"
    /\ queue = <<>>
    /\ metric = 1
    /\ language_metrics = <<>>
    /\ trace = <<>>
    /\ last = NoCall
    /\ report = NoReport
    /\ rating = NoRating
    /\ http = NoRequest

\* The operation runs to its return statement.
Returned(ret, analyzer, m, env) ==
    /\ last' = [analyzer |-> analyzer, metric |-> m, n |-> Len(Matching(analyzer)),
                env |-> env, before |-> fs, ret |-> ret]
    /\ fs' = ret.fs

(***************************************************************************)
(* The twelve operations, each called on the directory by itself.          *)
(***************************************************************************)
PythonStyle ==
    /\ pc = "idle"
    /\ \E env \in Flake8Envs(Len(Matching("PythonAnalyzer"))) :
            Returned(PythonAnalyzer_analyze_style(directory, fs, env),
                     "PythonAnalyzer", "style", env)
    /\ pc' = "returned"
    /\ UNCHANGED <<directory, queue, metric, language_metrics, trace, report, rating, http>>

PythonQuality ==
    /\ pc = "idle"
    /\ \E env \in PylintEnvs(Len(Matching("PythonAnalyzer"))) :
            Returned(PythonAnalyzer_analyze_quality(directory, fs, env),
                     "PythonAnalyzer", "quality", env)
    /\ pc' = "returned"
    /\ UNCHANGED <<directory, queue, metric, language_metrics, trace, report, rating, http>>

PythonComplexity ==
    /\ pc = "idle"
    /\ \E env \in RadonEnvs(Len(Matching("PythonAnalyzer"))) :
            Returned(PythonAnalyzer_analyze_complexity(directory, fs, env),
                     "PythonAnalyzer", "complexity", env)
    /\ pc' = "returned"
    /\ UNCHANGED <<directory, queue, metric, language_metrics, trace, report, rating, http>>

PythonSecurity ==
    /\ pc = "idle"
    /\ \E env \in BanditEnvs :
            Returned(PythonAnalyzer_analyze_security(directory, fs, env),
                     "PythonAnalyzer", "security", env)
    /\ pc' = "returned"
    /\ UNCHANGED <<directory, queue, metric, language_metrics, trace, report, rating, http>>

JavaScriptStyle ==
    /\ pc = "idle"
    /\ \E env \in ESLintEnvs(Len(Matching("JavaScriptAnalyzer"))) :
            Returned(JavaScriptAnalyzer_analyze_style(directory, fs, env),
                     "JavaScriptAnalyzer", "style", env)
    /\ pc' = "returned"
    /\ UNCHANGED <<directory, queue, metric, language_metrics, trace, report, rating, http>>

JavaScriptQuality ==
    /\ pc = "idle"
    /\ \E env \in ESLintEnvs(Len(Matching("JavaScriptAnalyzer"))) :
            Returned(JavaScriptAnalyzer_analyze_quality(directory, fs, env),
                     "JavaScriptAnalyzer", "quality", env)
    /\ pc' = "returned"
    /\ UNCHANGED <<directory, queue, metric, language_metrics, trace, report, rating, http>>

JavaScriptComplexity ==
    /\ pc = "idle"
    /\ \E env \in ComplexityEnvs(Len(Matching("JavaScriptAnalyzer"))) :
            Returned(JavaScriptAnalyzer_analyze_complexity(directory, fs, env),
                     "JavaScriptAnalyzer", "complexity", env)
    /\ pc' = "returned"
    /\ UNCHANGED <<directory, queue, metric, language_metrics, trace, report, rating, http>>

JavaScriptSecurity ==
    /\ pc = "idle"
    /\ \E env \in AuditEnvs :
            Returned(JavaScriptAnalyzer_analyze_security(directory, fs, env),
                     "JavaScriptAnalyzer", "security", env)
    /\ pc' = "returned"
    /\ UNCHANGED <<directory, queue, metric, language_metrics, trace, report, rating, http>>

JavaStyle ==
    /\ pc = "idle"
    /\ \E env \in CheckstyleEnvs(Len(Matching("JavaAnalyzer"))) :
            Returned(JavaAnalyzer_analyze_style(directory, fs, env),
                     "JavaAnalyzer", "style", env)
    /\ pc' = "returned"
    /\ UNCHANGED <<directory, queue, metric, language_metrics, trace, report, rating, http>>

JavaQuality ==
    /\ pc = "idle"
    /\ \E env \in PMDEnvs :
            Returned(JavaAnalyzer_analyze_quality(directory, fs, env),
                     "JavaAnalyzer", "quality", env)
    /\ pc' = "returned"
    /\ UNCHANGED <<directory, queue, metric, language_metrics, trace, report, rating, http>>

JavaComplexity ==
    /\ pc = "idle"
    /\ \E env \in JavaReadEnvs(Len(Matching("JavaAnalyzer"))) :
            Returned(JavaAnalyzer_analyze_complexity(directory, fs, env),
                     "JavaAnalyzer", "complexity", env)
    /\ pc' = "returned"
    /\ UNCHANGED <<directory, queue, metric, language_metrics, trace, report, rating, http>>

JavaSecurity ==
    /\ pc = "idle"
    /\ \E env \in JavaSecurityEnvs(Len(Matching("JavaAnalyzer"))) :
            Returned(JavaAnalyzer_analyze_security(directory, fs, env),
                     "JavaAnalyzer", "security", env)
    /\ pc' = "returned"
    /\ UNCHANGED <<directory, queue, metric, language_metrics, trace, report, rating, http>>

Next ==
    \/ PythonStyle \/ PythonQuality \/ PythonComplexity \/ PythonSecurity
    \/ JavaScriptStyle \/ JavaScriptQuality \/ JavaScriptComplexity
    \/ JavaScriptSecurity
    \/ JavaStyle \/ JavaQuality \/ JavaComplexity \/ JavaSecurity

Spec == Init /\ [][Next]_vars

(***************************************************************************)
(* analyze_directory, one step per statement of its second loop.           *)
(***************************************************************************)
\* In a run of analyze_directory a tool is not installed, or it reports
\* the same on every file: nothing, or undecodable bytes (ESLint in
\* analyze_style), or one function of complexity MaxIssues (ESLint in
\* analyze_complexity).
QuietOutput(analyzer, m) ==
    CASE analyzer = "PythonAnalyzer" /\ m = "quality" -> <<Rated(R(10))>>
      [] analyzer = "JavaScriptAnalyzer" -> Results(<<>>)
      [] analyzer = "JavaAnalyzer" /\ m = "complexity" -> Content(0, 1)
      [] OTHER -> <<>>

RunOutcomes(analyzer, m) ==
    {Run("ok", QuietOutput(analyzer, m))}
    \cup (IF analyzer = "JavaScriptAnalyzer" /\ m = "style" THEN {Decode} ELSE {})
    \cup (IF analyzer = "JavaScriptAnalyzer" /\ m = "complexity"
          THEN {Run("ok", Results(<<Complexity(MaxIssues)>>))} ELSE {})

RunEnvs(analyzer, m, n) ==
    {e \in Envs(analyzer, m, n) :
        \/ ~e.installed
        \/ /\ \E r \in RunOutcomes(analyzer, m) : \A i \in DOMAIN e.runs : e.runs[i] = r
           /\ "jar" \in DOMAIN e => e.jar
           /\ "version" \in DOMAIN e => e.version = "ok"
           /\ "javac" \in DOMAIN e => \A i \in DOMAIN e.javac : e.javac[i] = "ok"}

\* ESLint reads the .eslintrc.json of the directory: the one the user
\* put there, the one analyze_style writes or the one analyze_complexity
\* writes.  What it prints is a function of the configuration it finds:
\* in analyze_complexity it prints the same under every configuration or
\* reports the complex function only under that operation's own one.
\* The other tools do not read the file.
ESLintConfigs == {"user", "style", "complexity"}
Tools(analyzer, m, n) ==
    {[c \in ESLintConfigs |-> e] : e \in RunEnvs(analyzer, m, n)}
    \cup (IF analyzer = "JavaScriptAnalyzer" /\ m = "complexity"
          THEN {[c \in ESLintConfigs |->
                    [installed |-> TRUE,
                     runs |-> [i \in 1..n |->
                                Run("ok", IF c = "complexity"
                                          THEN Results(<<Complexity(MaxIssues)>>)
                                          ELSE Results(<<>>))]]]}
          ELSE {})
\* if not os.path.exists(eslint_config): the operation writes its own
ConfigSeen(m, files) ==
    ConfigAtStart(files, IF m = "complexity" THEN "complexity" ELSE "style")

\* The first loop: the files are grouped by language.
Walk ==
    /\ pc = "start"
    /\ language_metrics' = Classify(directory)
    /\ queue' = LanguageOrder(Recognized(directory), {})
    /\ pc' = IF queue' = <<>> THEN "done" ELSE "analyze"
    /\ UNCHANGED <<directory, fs, metric, trace, last, report, rating, http>>

\* After the last metric of a language the loop goes to the next one,
\* and analyze_directory returns after the last language.
Advance(m) ==
    IF m < Len(METRICS)
    THEN /\ metric' = m + 1
         /\ UNCHANGED <<queue, pc>>
    ELSE /\ metric' = 1
         /\ queue' = Tail(queue)
         /\ pc' = IF Tail(queue) = <<>> THEN "done" ELSE "analyze"

\* data[METRICS[m]] = analyzer.analyze_<METRICS[m]>(directory)
Store(language, m, result) ==
    language_metrics' = [language_metrics EXCEPT ![language][METRICS[m]] = result]

Call(m) ==
    /\ pc = "analyze"
    /\ LET language == Head(queue)
           analyzer == AnalyzerFor(language_metrics[language])
       IN  /\ analyzer # "None"
           /\ \E tool \in Tools(analyzer, METRICS[m], Len(Matching(analyzer))) :
                LET env == tool[ConfigSeen(METRICS[m], fs)]
                IN  /\ Returned(Analyze(analyzer, METRICS[m], directory, fs, env),
                                analyzer, METRICS[m], env)
                    /\ trace' = Append(trace, [language |-> language,
                                               analyzer |-> analyzer,
                                               metric |-> METRICS[m],
                                               tool |-> tool, env |-> env,
                                               before |-> fs])
           /\ Store(language, m, last'.ret.result)
    /\ Advance(m)
    /\ UNCHANGED <<directory, report, rating, http>>

CallStyle ==
    /\ metric = 1
    /\ Call(1)

CallQuality ==
    /\ metric = 2
    /\ Call(2)

CallComplexity ==
    /\ metric = 3
    /\ Call(3)

CallSecurity ==
    /\ metric = 4
    /\ Call(4)

\* The loop does not leave a language without analyzer.
NoAnalyzer_Waits ==
    /\ pc = "analyze"
    /\ AnalyzerFor(language_metrics[Head(queue)]) = "None"
    /\ UNCHANGED vars

\* if analyzer: is false: the language keeps its initial metrics.
NoAnalyzer ==
    /\ pc = "analyze"
    /\ AnalyzerFor(language_metrics[Head(queue)]) = "None"
    /\ queue' = Tail(queue)
    /\ pc' = IF Tail(queue) = <<>> THEN "done" ELSE "analyze"
    /\ UNCHANGED <<directory, fs, metric, language_metrics, trace, last, report, rating, http>>

NextRun ==
    \/ Walk
    \/ CallStyle \/ CallQuality \/ CallComplexity \/ CallSecurity
    \/ NoAnalyzer

SpecRun == InitRun /\ [][NextRun]_vars

(***************************************************************************)
(* generate_report(language_metrics, title) and get_rating(score), applied *)
(* to results of bounded size.  The scores are binary fractions, which     *)
(* Python's floats hold and add exactly.                                   *)
(***************************************************************************)
MaxLanguages == 2   \* languages in one report

ReportLanguages == {"Python", "Java", "Go"}

\* k issue strings, each different from the others.
Findings(k) == [j \in 1..k |-> <<"finding", j>>]

\* The results of one language.
Metrics(files, style, quality, complexity, security) ==
    [files |-> files, style |-> style, quality |-> quality,
     complexity |-> complexity, security |-> security]

LanguageSamples ==
    {Metrics(<<<<"a", ".py">>>>, MetricResult(R(10), <<>>), MetricResult(R(10), <<>>),
             MetricResult(R(10), <<>>), MetricResult(R(7), Findings(1))),
     Metrics(<<<<"a", ".py">>, <<"b", ".py">>>>,
             MetricResult(R(10), <<>>), MetricResult(R(10), <<>>),
             MetricResult(R(10), <<>>), MetricResult(Rat(29, 4), Findings(IssueLimit))),
     Metrics(<<<<"a", ".py">>>>, MetricResult(R(0), Findings(IssueLimit + 1)),
             MetricResult(Rat(9, 2), <<>>), MetricResult(R(3), Findings(2)),
             MetricResult(R(5), <<>>)),
     Metrics(<<<<"a", ".py">>, <<"b", ".py">>, <<"c", ".py">>>>,
             MetricResult(R(9), <<>>), MetricResult(Rat(37, 4), Findings(IssueLimit + 2)),
             MetricResult(R(10), <<>>), MetricResult(R(0), <<"Error analyzing security">>)),
     Metrics(<<<<"a", ".py">>>>, InitialMetric, InitialMetric, InitialMetric, InitialMetric)}

\* The keys of a result in the order they were added.
LanguageOrders ==
    {order \in UNION {[1..k -> ReportLanguages] : k \in 1..MaxLanguages} :
        \A i, j \in DOMAIN order : i # j => order[i] # order[j]}

\* The arguments of get_rating: the quarters from 0 to 10.
RatedScores == {Rat(k, 4) : k \in 0..40}

\* generate_report is entered with a result that has a language.
InitReport ==
    /\ directory \in {{}}
    /\ fs = FileSystem("absent", FALSE, {})
    /\ pc = "report"
    /\ queue \in LanguageOrders
    /\ metric = 1
    /\ language_metrics \in [Range(queue) -> LanguageSamples]
    /\ trace = <<>>
    /\ last = NoCall
    /\ report = NoReport
    /\ rating = NoRating
    /\ http = NoRequest

\* generate_report runs to return path.
GenerateReport ==
    /\ pc = "report"
    /\ report' = [input |-> language_metrics, languages |-> queue,
                  document |-> Document(language_metrics, queue)]
    /\ language_metrics' = AfterRender(language_metrics)
    /\ fs' = [fs EXCEPT !.tmp = @ \cup {"report.pdf"}]
    /\ pc' = "rendered"
    /\ UNCHANGED <<directory, queue, metric, trace, last, rating, http>>

\* get_rating(score) returns.
Rate ==
    /\ pc \in {"report", "rendered"}
    /\ \E score \in RatedScores :
        rating' = [score |-> score, rating |-> get_rating(score)]
    /\ pc' = "rated"
    /\ UNCHANGED <<directory, fs, queue, metric, language_metrics, trace, last, report, http>>

NextReport ==
    \/ GenerateReport
    \/ Rate

SpecReport == InitReport /\ [][NextReport]_vars

(***************************************************************************)
(* The request handlers (src/app.py, analyze_pr and analyze) from the call *)
(* of the handler to its response.  A URL is its scheme, its host and the  *)
(* segments of its path.                                                   *)
(***************************************************************************)
Url(scheme, host, path) == [scheme |-> scheme, host |-> host, path |-> path]

EmptyUrl == Url("", "", <<>>)

PrUrls ==
    {EmptyUrl,
     Url("https", "github.com", <<"o", "r", "pull", "1">>),
     Url("http", "github.com", <<"o", "r", "pull", "12a", "files">>),
     Url("https", "github.com", <<"o", "r", "pull", "x">>),
     Url("https", "github.com", <<"o", "r", "issues", "1">>),
     Url("https", "gitlab.com", <<"o", "r", "pull", "1">>)}

\* The digits (\d+) matches at the start of a segment.
LeadingDigits(segment) ==
    CASE segment = "1" -> "1"
      [] segment = "12a" -> "12"
      [] OTHER -> ""

None3 == <<"", "", "">>

\* The pattern without the host.
parse_github_pr_url_AnyHost(url) ==
    IF /\ url # EmptyUrl
       /\ url.scheme \in {"http", "https"}
       /\ Len(url.path) >= 4
       /\ url.path[1] # "" /\ url.path[2] # ""
       /\ url.path[3] = "pull"
       /\ LeadingDigits(url.path[4]) # ""
    THEN <<url.path[1], url.path[2], LeadingDigits(url.path[4])>>
    ELSE None3

\* re.match(r'https?://github\.com/([^/]+)/([^/]+)/pull/(\d+)', url)
parse_github_pr_url(url) ==
    IF /\ url # EmptyUrl
       /\ url.scheme \in {"http", "https"}
       /\ url.host = "github.com"
       /\ Len(url.path) >= 4
       /\ url.path[1] # "" /\ url.path[2] # ""
       /\ url.path[3] = "pull"
       /\ LeadingDigits(url.path[4]) # ""
    THEN <<url.path[1], url.path[2], LeadingDigits(url.path[4])>>
    ELSE None3

UpperCase ==
    <<"A", "B", "C", "D", "E", "F", "G", "H", "I", "J", "K", "L", "M",
      "N", "O", "P", "Q", "R", "S", "T", "U", "V", "W", "X", "Y", "Z">>

LowerCase ==
    <<"a", "b", "c", "d", "e", "f", "g", "h", "i", "j", "k", "l", "m",
      "n", "o", "p", "q", "r", "s", "t", "u", "v", "w", "x", "y", "z">>

\* file_extension.lower()
Lower(name) ==
    [i \in DOMAIN name |->
        IF \E k \in DOMAIN UpperCase : UpperCase[k] = name[i]
        THEN LowerCase[CHOOSE k \in DOMAIN UpperCase : UpperCase[k] = name[i]]
        ELSE name[i]]

\* What api.github.com answers to the request for the files of the pull
\* request: no answer, a status that is not 200, a body that is not JSON,
\* a JSON object, or the list of the files, of which those in served can
\* be downloaded.
Reply(kind, files, served) == [kind |-> kind, files |-> files, served |-> served]

GitHubReplies ==
    {Reply(kind, {}, {}) : kind \in {"network_error", "status", "not_json", "object"}}
    \cup UNION {{Reply("files", files, served) : served \in SUBSET files} :
                    files \in Directories}

\* response.json() raises requests' JSONDecodeError, a RequestException
\* from requests 2.27 on and a ValueError before: the except clause that
\* takes it depends on the installed version.
NotJsonMessages ==
    {"Network error accessing GitHub API", "Invalid response from GitHub API"}

\* downloaded_files: the files whose lower-cased extension is recognized
\* and whose download answers 200.
fetch_github_pr_files(reply) ==
    SelectSeq(FileOrder,
              LAMBDA f : /\ f \in reply.files
                         /\ Lower(SplitExt(f)) \in ALL_EXTENSIONS
                         /\ f \in reply.served)

Form(error) == [kind |-> "form", error |-> error]

Pdf == [kind |-> "pdf", error |-> ""]

Redirect == [kind |-> "redirect", error |-> ""]

\* An exception that leaves the handler.
Raised(error) == [kind |-> "raised", error |-> error]

\* What a handler has done when it calls analyze_directory or returns
\* before: the response if it returned, the functions called, and the
\* directory to analyse.
Entered(response, calls, dir, files) ==
    [response |-> response, calls |-> calls, directory |-> dir, fs |-> files]

NoFileSystem == FileSystem("absent", FALSE, {})

\* analyze_pr to the call of analyze_directory.
PrEntry(request, not_json) ==
    IF request.pr_url = EmptyUrl
    THEN Entered(Form("Please provide a valid GitHub PR URL."), <<>>, {}, NoFileSystem)
    ELSE IF parse_github_pr_url(request.pr_url) = None3
    THEN Entered(Form("Invalid GitHub PR URL format"),
                 <<"parse_github_pr_url">>, {}, NoFileSystem)
    ELSE LET calls == <<"parse_github_pr_url", "fetch_github_pr_files">>
             pr_files == fetch_github_pr_files(request.github)
         IN  CASE request.github.kind = "network_error" ->
                    Entered(Form("Network error accessing GitHub API"), calls, {},
                            NoFileSystem)
               [] request.github.kind = "status" ->
                    Entered(Form("Error analyzing PR"), calls, {}, NoFileSystem)
               [] request.github.kind = "not_json" ->
                    Entered(Form(not_json), calls, {}, NoFileSystem)
               [] request.github.kind = "object" ->
                    Entered(Form("Error analyzing PR"), calls, {}, NoFileSystem)
               [] OTHER ->
                    IF pr_files = <<>>
                    THEN Entered(Form("No supported code files found in the PR or unable to access the repository."),
                                 calls, {}, NoFileSystem)
                    ELSE Entered(NoResponse, Append(calls, "analyze_directory"),
                                 Range(pr_files), NoFileSystem)

ZipName == <<"s", ".", "z", "i", "p">>

BadZip == [directory |-> {}, fs |-> NoFileSystem, bad |-> TRUE]

Archive(dir, files) == [directory |-> dir, fs |-> files, bad |-> FALSE]

\* The file part of an upload: none, or a file name and, for an archive,
\* what it holds.
Upload(part, filename, archive) ==
    [part |-> part, filename |-> filename, archive |-> archive]

Uploads ==
    {Upload(FALSE, <<>>, BadZip), Upload(TRUE, <<>>, BadZip),
     Upload(TRUE, ZipName, BadZip)}
    \cup {Upload(TRUE, ZipName, Archive(dir, files)) :
            dir \in Directories, files \in FileSystems}
    \cup {Upload(TRUE, f, BadZip) : f \in FileNames}

\* analyze to the call of analyze_directory.
UploadEntry(request) ==
    IF ~request.file.part THEN Entered(Redirect, <<>>, {}, NoFileSystem)
    ELSE IF request.file.filename = <<>> THEN Entered(Redirect, <<>>, {}, NoFileSystem)
    ELSE IF EndsWith(request.file.filename, <<".", "z", "i", "p">>)
    THEN IF request.file.archive.bad
         THEN Entered(Raised("BadZipFile"), <<>>, {}, NoFileSystem)
         ELSE Entered(NoResponse, <<"analyze_directory">>,
                      request.file.archive.directory, request.file.archive.fs)
    ELSE Entered(NoResponse, <<"analyze_directory">>, {request.file.filename},
                 NoFileSystem)

Requests ==
    {[endpoint |-> "analyze_pr", pr_url |-> url, github |-> reply] :
        url \in PrUrls, reply \in GitHubReplies}
    \cup {[endpoint |-> "analyze", file |-> upload] : upload \in Uploads}

\* A handler is called with a request.
InitWeb ==
    /\ directory = {}
    /\ fs = NoFileSystem
    /\ pc = "request"
    /\ queue = <<>>
    /\ metric = 1
    /\ language_metrics = <<>>
    /\ trace = <<>>
    /\ last = NoCall
    /\ report = NoReport
    /\ rating = NoRating
    /\ \E request \in Requests :
          http = [request |-> request, calls |-> <<>>, response |-> NoResponse]

\* analyze_pr up to its call of analyze_directory, or to its return if
\* that is before.
analyze_pr ==
    /\ pc = "request"
    /\ http.request.endpoint = "analyze_pr"
    /\ \E not_json \in NotJsonMessages :
          LET entered == PrEntry(http.request, not_json)
          IN  /\ http' = [http EXCEPT !.calls = entered.calls,
                                      !.response = entered.response]
              /\ directory' = entered.directory
              /\ fs' = entered.fs
              /\ pc' = IF entered.response = NoResponse THEN "start" ELSE "responded"
    /\ UNCHANGED <<queue, metric, language_metrics, trace, last, report, rating>>

\* analyze up to its call of analyze_directory, or to its return or the
\* exception that ends it if that is before.
analyze ==
    /\ pc = "request"
    /\ http.request.endpoint = "analyze"
    /\ LET entered == UploadEntry(http.request)
       IN  /\ http' = [http EXCEPT !.calls = entered.calls,
                                   !.response = entered.response]
           /\ directory' = entered.directory
           /\ fs' = entered.fs
           /\ pc' = IF entered.response = NoResponse THEN "start" ELSE "responded"
    /\ UNCHANGED <<queue, metric, language_metrics, trace, last, report, rating>>

NoSupportedFiles(endpoint) ==
    IF endpoint = "analyze_pr" THEN "No supported code files found in the PR."
    ELSE "No supported code files found in the upload."

\* analyze_directory has returned: the handler answers with the form if
\* language_metrics is empty and with the report it generates otherwise.
Respond ==
    /\ pc = "done"
    /\ http.request.endpoint # ""
    /\ LET empty == DOMAIN language_metrics = {}
           languages == LanguageOrder(Recognized(directory), {})
       IN  /\ report' = IF empty THEN report
                        ELSE [input |-> language_metrics, languages |-> languages,
                              document |-> Document(language_metrics, languages)]
           /\ language_metrics' = IF empty THEN language_metrics
                                  ELSE AfterRender(language_metrics)
           /\ fs' = IF empty THEN fs ELSE [fs EXCEPT !.tmp = @ \cup {"report.pdf"}]
           /\ http' = IF empty
                      THEN [http EXCEPT
                              !.response = Form(NoSupportedFiles(http.request.endpoint))]
                      ELSE [http EXCEPT !.calls = Append(@, "generate_report"),
                                        !.response = Pdf]
    /\ pc' = "responded"
    /\ UNCHANGED <<directory, queue, metric, trace, last, rating>>

NextWeb ==
    \/ analyze_pr
    \/ analyze
    \/ Walk
    \/ CallStyle \/ CallQuality \/ CallComplexity \/ CallSecurity
    \/ NoAnalyzer
    \/ Respond

SpecWeb == InitWeb /\ [][NextWeb]_vars

\* The requests of the runs checked to their end: pull requests whose
\* files are all downloaded and uploads of one file, over a Python file, a
\* TypeScript file, a Go file and a file with an upper-case extension.
LiveFiles ==
    {<<"a", ".", "p", "y">>, <<"c", ".", "t", "s">>, <<"f", ".", "g", "o">>,
     <<"g", ".", "P", "Y">>}

LiveRequests ==
    {request \in Requests :
        IF request.endpoint = "analyze_pr"
        THEN /\ request.pr_url = Url("https", "github.com", <<"o", "r", "pull", "1">>)
             /\ request.github.files \subseteq LiveFiles
             /\ request.github.served = request.github.files
        ELSE request.file.archive.bad}

InitWebFair ==
    /\ directory = {}
    /\ fs = NoFileSystem
    /\ pc = "request"
    /\ queue = <<>>
    /\ metric = 1
    /\ language_metrics = <<>>
    /\ trace = <<>>
    /\ last = NoCall
    /\ report = NoReport
    /\ rating = NoRating
    /\ \E request \in LiveRequests :
          http = [request |-> request, calls |-> <<>>, response |-> NoResponse]

\* The step of Respond as pc shows it.
Returns == pc = "done" /\ pc' = "responded"

\* The handler runs on: the thread that can take a step takes it.  The
\* step from the return of analyze_directory to the response is named by
\* what it does to pc.
SpecWebFair ==
    /\ InitWebFair /\ [][NextWeb]_vars
    /\ WF_vars(analyze_pr) /\ WF_vars(analyze) /\ WF_vars(Walk)
    /\ WF_vars(CallStyle) /\ WF_vars(CallQuality) /\ WF_vars(CallComplexity)
    /\ WF_vars(CallSecurity) /\ WF_vars(NoAnalyzer)
    /\ WF_pc(Returns)

(***************************************************************************)
(* Properties.                                                             *)
(***************************************************************************)
Called == last.analyzer # ""
Score == last.ret.result.score
Issues == last.ret.result.issues
Is(analyzer, m) == last.analyzer = analyzer /\ last.metric = m

\* C1: every MetricResult an operation returns has its score in [0, 10],
\* whatever the tools print.
C1_ScoreInRange == Called => RLe(R(0), Score) /\ RLe(Score, R(10))

\* C2: with no file matching the analyzer's extensions the operation
\* returns score 10.0 and the one issue "No <language> files found",
\* starts no subprocess and creates no file.
C2_Language ==
    CASE last.analyzer = "PythonAnalyzer" -> "No Python files found"
      [] last.analyzer = "JavaScriptAnalyzer" -> "No JavaScript/TypeScript files found"
      [] last.analyzer = "JavaAnalyzer" -> "No Java files found"

C2_NoFiles ==
    (Called /\ last.n = 0) =>
        /\ last.ret.result = [score |-> <<10, 1>>, issues |-> << <<C2_Language, <<>>>> >>]
        /\ last.ret.nsub = 0
        /\ ~last.ret.outer
        /\ last.ret.fs = last.before
        /\ fs = last.before

C2_Witness ==
    /\ Called /\ last.n = 0
    /\ directory # {}
    /\ last.before.eslintrc = "absent"
    /\ Is("JavaScriptAnalyzer", "style")

\* C4, as claimed: when the outer handler catches an exception (files
\* were found) the result is score 0 and the issues list is exactly the
\* one error string.
C4_Original ==
    (Called /\ last.n >= 1 /\ last.ret.outer) => Score = R(0) /\ Len(Issues) = 1

C4_ErrorText ==
    CASE Is("PythonAnalyzer", "style") -> "Error running flake8"
      [] Is("PythonAnalyzer", "quality") -> "Error running pylint"
      [] Is("PythonAnalyzer", "complexity") -> "Error running radon"
      [] Is("PythonAnalyzer", "security") -> "Error running bandit"
      [] Is("JavaScriptAnalyzer", "style") -> "Error running ESLint"
      [] Is("JavaScriptAnalyzer", "quality") -> "Error running JSHint"
      [] Is("JavaScriptAnalyzer", "complexity") -> "Error analyzing complexity"
      [] Is("JavaScriptAnalyzer", "security") -> "Error in security analysis"
      [] Is("JavaAnalyzer", "style") -> "Error running Checkstyle"
      [] Is("JavaAnalyzer", "quality") -> "Error running PMD"
      [] Is("JavaAnalyzer", "complexity") -> "Error analyzing complexity"
      [] Is("JavaAnalyzer", "security") -> "Error in security analysis"

\* C4, amended: when the outer handler catches an exception the result
\* is score 0 and the issues list ends with the one error string; the
\* entries before it are issues of files handled before the exception.
C4_Amended ==
    (Called /\ last.n >= 1 /\ last.ret.outer) =>
        /\ Score = R(0)
        /\ Len(Issues) >= 1
        /\ Issues[Len(Issues)] = <<C4_ErrorText, <<>>>>
        /\ \A i \in 1..(Len(Issues) - 1) : Issues[i][2] \in directory

C4_Witness ==
    /\ Called /\ last.n >= 2 /\ last.ret.outer
    /\ Len(Issues) > 1

\* The same tool outputs, with every non-zero exit status turned into 0.
ZeroExit(env) ==
    LET zero == [env EXCEPT !.runs = [i \in DOMAIN env.runs |->
                        IF env.runs[i].exit = "fail"
                        THEN Run("ok", env.runs[i].out) ELSE env.runs[i]]]
    IN  IF "javac" \in DOMAIN env
        THEN [zero EXCEPT !.javac = [i \in DOMAIN env.javac |-> "ok"]]
        ELSE zero

\* C5: a non-zero exit status changes nothing: the operation returns the
\* score and the issues it returns when the tool prints the same output
\* and exits 0.
C5_ExitStatusIgnored ==
    Called =>
        last.ret.result =
            Analyze(last.analyzer, last.metric, directory, last.before,
                    ZeroExit(last.env)).result

\* The weighted issue count W of a security operation.
C6_Weight(severity) ==
    IF severity = "critical" THEN 4
    ELSE IF severity = "high" THEN 3
    ELSE IF severity = "moderate" THEN 2
    ELSE 1

RECURSIVE C6_Sum(_, _)
C6_Sum(s, weighted) ==
    IF s = <<>> THEN 0
    ELSE Head(s)[2] * (IF weighted THEN C6_Weight(Head(s)[1]) ELSE 1)
         + C6_Sum(Tail(s), weighted)

RECURSIVE C6_Findings(_)
C6_Findings(reads) ==
    IF reads = <<>> THEN 0
    ELSE (IF Head(reads).exit = "ok" THEN C6_Sum(Head(reads).out, FALSE) ELSE 0)
         + C6_Findings(Tail(reads))

C6_W ==
    CASE last.analyzer = "PythonAnalyzer" ->
            Cardinality({i \in DOMAIN last.env.runs[1].out :
                            last.env.runs[1].out[i] = "Issue"})
      [] last.analyzer = "JavaScriptAnalyzer" -> C6_Sum(last.env.runs[1].out.msgs, TRUE)
      [] last.analyzer = "JavaAnalyzer" /\ ~last.env.jar -> C6_Findings(last.env.reads)
      [] last.analyzer = "JavaAnalyzer" /\ last.env.jar ->
            Len(SpotBugsKept(last.env.runs[1].out, FALSE))

\* Files were found and the security tool ran and was understood.
C6_ToolRun ==
    /\ Called /\ last.metric = "security" /\ last.n >= 1
    /\ CASE last.analyzer = "PythonAnalyzer" ->
                last.env.installed /\ last.env.runs[1].exit \in Exits
         [] last.analyzer = "JavaScriptAnalyzer" ->
                /\ last.before.package_json /\ last.env.installed
                /\ last.env.runs[1].exit = "ok"
                /\ last.env.runs[1].out.kind = "results"
         [] last.analyzer = "JavaAnalyzer" ->
                \/ ~last.env.jar
                \/ last.env.installed /\ last.env.runs[1].exit = "ok"

C6_Score(w) ==
    LET capped == IF RLe(R(10), w) THEN R(10) ELSE w
    IN  RSub(R(10), capped)

C7_Absent ==
    /\ Called /\ last.n >= 1
    /\ \/ ~last.env.installed /\ ~Is("JavaScriptAnalyzer", "security")
       \/ Is("JavaScriptAnalyzer", "security")
            /\ (~last.before.package_json \/ ~last.env.installed)
       \/ last.analyzer = "JavaAnalyzer" /\ last.metric \in {"style", "security"}
            /\ ~last.env.jar

\* C7: an absent tool or configuration gives the neutral score 5.0 with
\* an issue string, not score 0 and not the outer handler.
C7_AbsentIsNeutral ==
    C7_Absent => Score = R(5) /\ Len(Issues) >= 1 /\ ~last.ret.outer

\* A tool run that exits non-zero without parseable output, or whose
\* output does not parse.
C8_ToolFailed ==
    /\ Called /\ last.n >= 1 /\ last.env.installed
    /\ \/ /\ last.analyzer = "JavaScriptAnalyzer"
          /\ ~(last.metric = "security" /\ ~last.before.package_json)
          /\ \E i \in DOMAIN last.env.runs :
                /\ last.env.runs[i].exit \in Exits
                /\ last.env.runs[i].out.kind = "notjson"
       \/ /\ Is("PythonAnalyzer", "security")
          /\ last.env.runs[1].exit = "fail"
          /\ BanditKept(last.env.runs[1].out) = <<>>

\* C8: such a failure gives score 0 (5.0 for an absent tool), never a
\* score above 5.0, with an issue string.
C8_FailureDegrades == C8_ToolFailed => RLe(Score, R(5)) /\ Len(Issues) >= 1

\* The style tool ran on every file and its report was understood.
C9_Reported ==
    /\ Called /\ last.metric = "style" /\ last.n >= 1
    /\ last.env.installed
    /\ \A i \in DOMAIN last.env.runs : last.env.runs[i].exit \in Exits
    /\ last.analyzer = "JavaScriptAnalyzer" =>
            \A i \in DOMAIN last.env.runs : last.env.runs[i].out.kind = "results"
    /\ last.analyzer = "JavaAnalyzer" => last.env.jar

\* The number of issues the tool reports for one file.
C9_Reports(run) ==
    CASE last.analyzer = "PythonAnalyzer" -> Len(run.out)
      [] last.analyzer = "JavaScriptAnalyzer" -> Len(run.out.msgs)
      [] last.analyzer = "JavaAnalyzer" ->
            Cardinality({j \in DOMAIN run.out : run.out[j] = "[ERROR]"})

RECURSIVE C9_Total(_)
C9_Total(runs) ==
    IF runs = <<>> THEN 0 ELSE C9_Reports(Head(runs)) + C9_Total(Tail(runs))

\* C9: style score = max(0, 10 - min(10, k / n)) for k reported issues
\* over n >= 1 files, and the issues list has exactly k entries.
C9_StyleFormula ==
    C9_Reported =>
        LET k == C9_Total(last.env.runs)
        IN  /\ Score = (IF k >= 10 * last.n THEN R(0)
                        ELSE Rat(10 * last.n - k, last.n))
            /\ Len(Issues) = k

C9_Witness ==
    /\ C9_Reported
    /\ Is("PythonAnalyzer", "style")
    /\ last.n = 2
    /\ C9_Total(last.env.runs) = 1
    /\ Score = Rat(19, 2)

\* pylint ran on every file and no exception reached the outer handler.
C10_Rated ==
    /\ Is("PythonAnalyzer", "quality") /\ last.n >= 1
    /\ ~last.ret.outer

\* The rating of one file, floored at 0; 0 when there is no rating line.
C10_Rating(run) ==
    LET rated == {j \in DOMAIN run.out : run.out[j][1] = "rated"}
    IN  IF rated = {} THEN R(0)
        ELSE LET r == run.out[CHOOSE j \in rated : \A h \in rated : j <= h][2]
             IN  IF r[1] < 0 THEN R(0) ELSE r

RECURSIVE C10_Sum(_)
C10_Sum(runs) ==
    IF runs = <<>> THEN R(0) ELSE RAdd(C10_Rating(Head(runs)), C10_Sum(Tail(runs)))

\* C10: Python quality score = (sum of the n files' ratings, each floored
\* at 0, a file without a rating line counting 0) / n.
C10_PylintMean ==
    C10_Rated => Score = RDiv(C10_Sum(last.env.runs), R(last.n))

C10_Witness ==
    /\ C10_Rated
    /\ last.n = 2
    /\ \E i, j \in 1..2 :
          /\ i # j
          /\ last.env.runs[i].out = <<PylintMsg>>
          /\ last.env.runs[j].out = <<Rated(Rat(-5, 2))>>
    /\ Score = R(0)

\* The files as analyze_directory found them.
C3_Start == IF trace = <<>> THEN fs ELSE trace[1].before

\* What the i-th operation of the run returns when it is called on the
\* directory as analyze_directory found it, the tools being the same.
C3_Alone(i) ==
    LET t == trace[i]
    IN  Analyze(t.analyzer, t.metric, directory, C3_Start,
                t.tool[ConfigSeen(t.metric, C3_Start)]).result

\* C3: analyze_directory returns with all four metrics of every language
\* that has an analyzer set by its operations, and the result of a metric
\* is the same whether or not an earlier metric failed.
C3_FailureContained ==
    pc = "done" =>
        /\ \A language \in DOMAIN language_metrics :
              AnalyzerFor(language_metrics[language]) # "None" =>
                  \A m \in DOMAIN METRICS :
                      \E i \in DOMAIN trace :
                          /\ trace[i].language = language
                          /\ trace[i].metric = METRICS[m]
        /\ \A i \in DOMAIN trace :
              language_metrics[trace[i].language][trace[i].metric] = C3_Alone(i)

\* The complexity operation measured the files: no exception reached the
\* outer handler and no ESLint complexity message lacked its number.
C11_Measured ==
    /\ Called /\ last.metric = "complexity" /\ last.n >= 1
    /\ ~last.ret.outer
    /\ last.analyzer = "JavaScriptAnalyzer" =>
            \A i \in DOMAIN last.env.runs :
                LET run == last.env.runs[i]
                IN  (run.exit = "ok" /\ run.out.kind = "results") =>
                        \A j \in DOMAIN run.out.msgs :
                            run.out.msgs[j] # <<"complexity", 0>>

\* What one tool run measured: <<total complexity, measured units>>.
\* radon: the blocks of the file; ESLint: the file, when the rule reports
\* on it; the Java counter: the file, when it has a branch statement, its
\* branch statements per 100 lines.
C11_Run(run) ==
    CASE last.analyzer = "PythonAnalyzer" ->
            LET blocks == {j \in DOMAIN run.out : run.out[j][1] = "block"}
                sum[S \in SUBSET blocks] ==
                    IF S = {} THEN 0
                    ELSE LET j == CHOOSE x \in S : TRUE
                         IN  run.out[j][2] + sum[S \ {j}]
            IN  <<R(sum[blocks]), Cardinality(blocks)>>
      [] last.analyzer = "JavaScriptAnalyzer" ->
            IF run.exit = "ok" /\ run.out.kind = "results"
            THEN LET found == {j \in DOMAIN run.out.msgs :
                                   run.out.msgs[j][1] = "complexity"}
                     sum[S \in SUBSET found] ==
                        IF S = {} THEN 0
                        ELSE LET j == CHOOSE x \in S : TRUE
                             IN  run.out.msgs[j][2] + sum[S \ {j}]
                 IN  <<R(sum[found]), IF found = {} THEN 0 ELSE 1>>
            ELSE <<R(0), 0>>
      [] last.analyzer = "JavaAnalyzer" ->
            IF run.exit = "ok" /\ run.out.branches > 0
            THEN <<Rat(100 * run.out.branches, run.out.lines), 1>>
            ELSE <<R(0), 0>>

RECURSIVE C11_Totals(_)
C11_Totals(runs) ==
    IF runs = <<>> THEN <<R(0), 0>>
    ELSE LET h == C11_Run(Head(runs))
             t == C11_Totals(Tail(runs))
         IN  <<RAdd(h[1], t[1]), h[2] + t[2]>>

C11_Divisor == IF last.analyzer = "PythonAnalyzer" THEN 1 ELSE 2

\* C11: complexity score = max(0, 10 - min(10, average / divisor)), the
\* average being total complexity / measured units (0 with no unit) and
\* the divisor 1 for radon, 2 for ESLint and for the Java counter.
C11_ComplexityFormula ==
    C11_Measured =>
        LET t == C11_Totals(last.env.runs)
            average == IF t[2] = 0 THEN R(0) ELSE RDiv(t[1], R(t[2]))
            x == RDiv(average, R(C11_Divisor))
        IN  Score = (IF RLe(R(10), x) THEN R(0) ELSE RSub(R(10), x))

C11_Witness ==
    /\ C11_Measured
    /\ Is("JavaAnalyzer", "complexity")
    /\ last.n = 2
    /\ C11_Totals(last.env.runs) = <<R(7), 2>>
    /\ Score = Rat(33, 4)

\* Matching files exist, the tool ran on each (exit 0) and its output
\* holds no issue.
C12_NothingReported ==
    /\ Called /\ last.n >= 1 /\ last.env.installed
    /\ \A i \in DOMAIN last.env.runs :
          LET run == last.env.runs[i]
          IN  CASE Is("PythonAnalyzer", "style") -> run = Run("ok", <<>>)
                [] Is("PythonAnalyzer", "quality") ->
                      /\ run.exit = "ok"
                      /\ \A j \in DOMAIN run.out : run.out[j][1] = "rated"
                [] Is("PythonAnalyzer", "complexity") -> run = Run("ok", <<>>)
                [] Is("PythonAnalyzer", "security") ->
                      run.exit = "ok" /\ BanditKept(run.out) = <<>>
                [] last.analyzer = "JavaScriptAnalyzer" /\ last.metric # "security" ->
                      run = Run("ok", Results(<<>>))
                [] Is("JavaScriptAnalyzer", "security") ->
                      /\ last.before.package_json
                      /\ run = Run("ok", Results(<<>>))
                [] Is("JavaAnalyzer", "style") ->
                      /\ last.env.jar /\ run.exit = "ok"
                      /\ \A j \in DOMAIN run.out : run.out[j] # "[ERROR]"
                [] Is("JavaAnalyzer", "quality") ->
                      last.env.version = "ok" /\ run = Run("ok", <<>>)
                [] Is("JavaAnalyzer", "complexity") ->
                      run.exit = "ok" /\ run.out.branches = 0
                [] Is("JavaAnalyzer", "security") ->
                      IF last.env.jar
                      THEN run.exit = "ok" /\ SpotBugsKept(run.out, FALSE) = <<>>
                      ELSE \A f \in DOMAIN last.env.reads :
                              last.env.reads[f] = Run("ok", <<>>)

\* C12: when files exist, the tool runs and reports no issue, the score
\* is 10.0.
C12_NoIssuesIsBest == C12_NothingReported => Score = R(10)

\* The extension table as the claim C13 lists it.
C13_Table ==
    [e \in {<<".", "p", "y">>} |-> "Python"]
    @@ [e \in {<<".", "j", "s">>, <<".", "j", "s", "x">>} |-> "JavaScript"]
    @@ [e \in {<<".", "t", "s">>, <<".", "t", "s", "x">>} |-> "TypeScript"]
    @@ [e \in {<<".", "j", "a", "v", "a">>} |-> "Java"]
    @@ [e \in {<<".", "c", "p", "p">>, <<".", "c", "c">>, <<".", "c", "x", "x">>,
               <<".", "c">>, <<".", "h">>, <<".", "h", "p", "p">>} |-> "C/C++"]
    @@ [e \in {<<".", "g", "o">>} |-> "Go"]
    @@ [e \in {<<".", "r", "b">>} |-> "Ruby"]
    @@ [e \in {<<".", "p", "h", "p">>} |-> "PHP"]
    @@ [e \in {<<".", "c", "s">>} |-> "C#"]

\* How often a file is listed under a language.
C13_Listed(file, language) ==
    Cardinality({i \in DOMAIN language_metrics[language].files :
                    language_metrics[language].files[i] = file})

\* C13: after the walk the files lists partition the recognized files by
\* language: a file whose extension is in the table is listed once, under
\* the table's language; any other file is listed nowhere; no list is
\* empty.
C13_Partition ==
    pc \in {"analyze", "done"} =>
        /\ ALL_EXTENSIONS = DOMAIN C13_Table
        /\ \A e \in DOMAIN C13_Table : get_language_name(e) = C13_Table[e]
        /\ \A file \in directory :
              LET e == SplitExt(file)
              IN  \A language \in DOMAIN language_metrics :
                      C13_Listed(file, language) =
                          (IF e \in DOMAIN C13_Table /\ C13_Table[e] = language
                           THEN 1 ELSE 0)
        /\ \A file \in directory :
              SplitExt(file) \in DOMAIN C13_Table =>
                  C13_Table[SplitExt(file)] \in DOMAIN language_metrics
        /\ \A language \in DOMAIN language_metrics :
              /\ language_metrics[language].files # <<>>
              /\ \A i \in DOMAIN language_metrics[language].files :
                    language_metrics[language].files[i] \in directory

C13_Witness ==
    /\ pc = "done"
    /\ directory = {<<"c", ".", "t", "s">>, <<"g", ".", "P", "Y">>}
    /\ DOMAIN language_metrics = {"TypeScript"}
    /\ language_metrics["TypeScript"].files = << <<"c", ".", "t", "s">> >>

\* The analyzer the claim C14 names for a language, "None" for the others.
C14_Analyzer(language) ==
    CASE language = "Python" -> "PythonAnalyzer"
      [] language \in {"JavaScript", "TypeScript"} -> "JavaScriptAnalyzer"
      [] language = "Java" -> "JavaAnalyzer"
      [] OTHER -> "None"

\* The calls analyze_directory made for a language and a metric.
C14_Calls(language, m) ==
    {i \in DOMAIN trace : trace[i].language = language /\ trace[i].metric = m}

\* C14: when analyze_directory returns, each metric of a Python,
\* JavaScript, TypeScript or Java entry is what the one call of that
\* operation of the Python, JavaScript or Java analyzer returned; for any
\* other language no operation was called and the four metrics are
\* score 0 with no issue.
C14_Dispatch ==
    pc = "done" =>
        \A language \in DOMAIN language_metrics :
            \A k \in DOMAIN METRICS :
                LET m == METRICS[k]
                    calls == C14_Calls(language, m)
                IN  IF C14_Analyzer(language) # "None"
                    THEN /\ Cardinality(calls) = 1
                         /\ \A i \in calls :
                              /\ trace[i].analyzer = C14_Analyzer(language)
                              /\ language_metrics[language][m] =
                                    Analyze(C14_Analyzer(language), m, directory,
                                            trace[i].before, trace[i].env).result
                    ELSE /\ calls = {}
                         /\ language_metrics[language][m] =
                                [score |-> <<0, 1>>, issues |-> <<>>]

C14_Witness ==
    /\ pc = "done"
    /\ DOMAIN language_metrics = {"TypeScript", "Go"}
    /\ Len(trace) = 4
    /\ language_metrics["TypeScript"]["quality"].score = R(10)
    /\ language_metrics["Go"]["quality"].score = R(0)

C15_Order == <<"style", "quality", "complexity", "security">>

\* C15: the operations of a run are called one after the other, in the
\* order style, quality, complexity, security for a language, the four of
\* one language before any of the next, and each one finds the files as
\* the one before it left them when it returned.
C15_FixedOrder ==
    /\ pc = "done" => Len(trace) % 4 = 0
    /\ \A i \in DOMAIN trace :
        /\ trace[i].metric = C15_Order[((i - 1) % 4) + 1]
        /\ (i - 1) % 4 # 0 => trace[i].language = trace[i - 1].language
        /\ \A j \in 1..(i - 1) :
              trace[j].language = trace[i].language => (j - 1) \div 4 = (i - 1) \div 4
        /\ i > 1 =>
              trace[i].before =
                  Analyze(trace[i - 1].analyzer, trace[i - 1].metric, directory,
                          trace[i - 1].before, trace[i - 1].env).fs

C15_Witness ==
    /\ pc = "done"
    /\ Len(trace) = 8
    /\ trace[4].language = "Python" /\ trace[4].metric = "security"
    /\ trace[5].language = "Java" /\ trace[5].metric = "style"

\* generate_report has returned.
Rendered == report.languages # <<>>

\* A text of one decimal shows x: it is a tenth nearest to x.
Shows(tenths, x) ==
    /\ RLe(RSub(x, Rat(1, 20)), Rat(tenths, 10))
    /\ RLe(Rat(tenths, 10), RAdd(x, Rat(1, 20)))

C16_Mean(m) ==
    RDiv(RAdd(RAdd(RAdd(m.style.score, m.quality.score), m.complexity.score),
              m.security.score), R(4))

RECURSIVE C16_Total(_)
C16_Total(k) ==
    IF k = 0 THEN R(0)
    ELSE RAdd(C16_Total(k - 1), C16_Mean(report.input[report.languages[k]]))

\* C16: the Overall cell of a language's row of the summary table shows
\* the mean of its four scores to one decimal, and the total kept for the
\* Overall row is the sum of the means themselves, not of the texts shown.
C16_OverallIsMean ==
    Rendered =>
        /\ \A k \in DOMAIN report.languages :
              Shows(report.document.data[k + 1][7],
                    C16_Mean(report.input[report.languages[k]]))
        /\ report.document.overall_scores.overall = C16_Total(Len(report.languages))

C16_Witness ==
    /\ pc = "rendered"
    /\ Len(report.languages) = 2
    /\ C16_Mean(report.input[report.languages[1]]) = Rat(37, 4)
    /\ C16_Mean(report.input[report.languages[2]]) = Rat(149, 16)
    /\ report.document.data[2][7] = 92
    /\ report.document.data[3][7] = 93
    /\ report.document.overall_scores.overall = Rat(297, 16)
    /\ report.document.data[4][7] = 93

C17_Columns == <<"style", "quality", "complexity", "security">>

\* The sum over the first k languages of the scores of one metric.
RECURSIVE C17_Sum(_, _)
C17_Sum(m, k) ==
    IF k = 0 THEN R(0)
    ELSE RAdd(C17_Sum(m, k - 1), report.input[report.languages[k]][m].score)

RECURSIVE C17_Files(_)
C17_Files(k) ==
    IF k = 0 THEN 0
    ELSE C17_Files(k - 1) + Len(report.input[report.languages[k]].files)

\* C17: the summary table is the header row, one row for each language
\* and, exactly when there is more than one language, a last row named
\* Overall; the cells of that row show the means over the languages of the
\* four scores and of the Overall values, and the sum of the file counts.
C17_OverallRow ==
    Rendered =>
        LET n == Len(report.languages)
            data == report.document.data
        IN  /\ Len(data) = (IF n > 1 THEN n + 2 ELSE n + 1)
            /\ \A k \in 1..n : data[k + 1][1] = report.languages[k]
            /\ (\E i \in DOMAIN data : data[i][1] = "Overall") <=> n > 1
            /\ n = 1 => Len(data) = 2
            /\ n > 1 =>
                  /\ data[n + 2][1] = "Overall"
                  /\ data[n + 2][2] = C17_Files(n)
                  /\ \A c \in 1..4 :
                        Shows(data[n + 2][c + 2],
                              RDiv(C17_Sum(C17_Columns[c], n), R(n)))
                  /\ Shows(data[n + 2][7], RDiv(C16_Total(n), R(n)))

C17_Witness ==
    /\ pc = "rendered"
    /\ Len(report.languages) = 2
    /\ Len(report.input[report.languages[1]].files) = 2
    /\ Len(report.input[report.languages[2]].files) = 3
    /\ report.document.data[4] = <<"Overall", 5, 95, 96, 100, 36, 82>>

\* get_rating has returned.
RatingReturned == pc = "rated"

C18_Ratings == <<"Very Poor", "Poor", "Average", "Good", "Excellent">>

\* The place in C18_Ratings of the rating of a score.
C18_Rank(score) ==
    CHOOSE i \in DOMAIN C18_Ratings : C18_Ratings[i] = get_rating(score)

\* C18: the rating of a score from 0 to 10 is one of the five ratings, the
\* highest whose least score (9, 7, 5, 3) the score reaches and Very Poor
\* below 3, and a higher score never has a lower rating.
C18_RatingSteps ==
    RatingReturned =>
        /\ Cardinality({i \in DOMAIN C18_Ratings : C18_Ratings[i] = rating.rating}) = 1
        /\ rating.rating = "Excellent" <=> RLe(R(9), rating.score)
        /\ rating.rating = "Good" <=> RLe(R(7), rating.score) /\ RLt(rating.score, R(9))
        /\ rating.rating = "Average" <=> RLe(R(5), rating.score) /\ RLt(rating.score, R(7))
        /\ rating.rating = "Poor" <=> RLe(R(3), rating.score) /\ RLt(rating.score, R(5))
        /\ rating.rating = "Very Poor" <=> RLt(rating.score, R(3))
        /\ \A lower \in RatedScores :
              RLe(lower, rating.score) => C18_Rank(lower) <= C18_Rank(rating.score)

C18_Witness ==
    /\ RatingReturned
    /\ rating.score = R(7)
    /\ rating.rating = "Good"

\* C19: under a metric of a language the report has one bullet for each
\* of the first 20 issues, in their order; after them the line
\* '... and N more issues' with N the number of issues beyond 20 when there
\* are more than 20, and no such line otherwise; and the single line
\* 'No issues found.' when there is no issue.
C19_IssueLines ==
    Rendered =>
        \A k \in DOMAIN report.languages :
            \A m \in {"style", "quality", "complexity", "security"} :
                LET issues == report.input[report.languages[k]][m].issues
                    lines == report.document.sections[k][m].lines
                    L == Len(issues)
                    bullets == IF L <= 20 THEN L ELSE 20
                IN  /\ L = 0 => lines = << <<"none", 0>> >>
                    /\ L >= 1 =>
                          /\ \A j \in 1..bullets : lines[j] = <<"bullet", issues[j]>>
                          /\ L <= 20 => Len(lines) = bullets
                          /\ L > 20 =>
                                /\ Len(lines) = bullets + 1
                                /\ lines[bullets + 1] = <<"more", L - 20>>

C19_Witness ==
    /\ pc = "rendered"
    /\ \E k \in DOMAIN report.languages :
          LET metrics == report.input[report.languages[k]]
              section == report.document.sections[k]
          IN  /\ Len(metrics.quality.issues) = 22
              /\ Len(section.quality.lines) = 21
              /\ section.quality.lines[20] = <<"bullet", <<"finding", 20>>>>
              /\ section.quality.lines[21] = <<"more", 2>>
              /\ section.style.lines = << <<"none", 0>> >>
              /\ section.security.lines = << <<"bullet", "Error analyzing security">> >>
    /\ \E k \in DOMAIN report.languages :
          /\ Len(report.input[report.languages[k]].security.issues) = 20
          /\ Len(report.document.sections[k].security.lines) = 20

\* C20: when generate_report has returned, the result it was given has
\* the languages, in the order, the file lists, the scores and the whole
\* issue lists it had when the function was entered.
C20_InputUnchanged ==
    Rendered =>
        /\ language_metrics = report.input
        /\ queue = report.languages
        /\ DOMAIN language_metrics = Range(report.languages)

C20_Witness ==
    /\ pc = "rendered"
    /\ Len(queue) = 2
    /\ Len(language_metrics[queue[1]].quality.issues) = 22
    /\ Len(report.document.sections[1].quality.lines) = 21
    /\ Len(language_metrics[queue[2]].files) = 2

\* analyze_security of the Python analyzer on a directory with one Python
\* file that the scanner, when it is there, reports an issue for.
C21_Case ==
    /\ Called /\ Is("PythonAnalyzer", "security") /\ last.n = 1
    /\ last.env.installed =>
          /\ last.env.runs[1].exit \in Exits
          /\ \E j \in DOMAIN last.env.runs[1].out : last.env.runs[1].out[j] = "Issue"

C21_Reported ==
    Cardinality({j \in DOMAIN last.env.runs[1].out : last.env.runs[1].out[j] = "Issue"})

\* C21: for a Python file that calls os.system on user input the security
\* score is below 10 and an issue names the problem: with the scanner, 10
\* minus the number of issues it reports, not below 0, and the reported
\* issue; without the scanner, a command-injection warning.
C21_InjectionNamed ==
    C21_Case =>
        /\ RLt(Score, R(10))
        /\ IF last.env.installed
           THEN /\ Score = (IF C21_Reported >= 10 THEN R(0) ELSE R(10 - C21_Reported))
                /\ \E j \in DOMAIN Issues : Issues[j][1] = "Issue"
           ELSE \E j \in DOMAIN Issues : Issues[j][1] = "Possible command injection"

\* The handler has returned or an exception has left it.
Responded == pc = "responded"

\* analyze_directory, or generate_report, has been called in the request.
Analysed ==
    \/ \E i \in DOMAIN http.calls : http.calls[i] = "analyze_directory"
    \/ pc \in {"start", "analyze", "done"} \/ trace # <<>>
    \/ DOMAIN language_metrics # {}

Reported ==
    \/ \E i \in DOMAIN http.calls : http.calls[i] = "generate_report"
    \/ report # NoReport

\* The URL is http(s)://github.com/<owner>/<repo>/pull/<number>...
C22_Matches(url) ==
    /\ url.scheme \in {"http", "https"} /\ url.host = "github.com"
    /\ Len(url.path) >= 4 /\ url.path[3] = "pull" /\ url.path[4] \in {"1", "12a"}

C22_Refused ==
    \/ ~C22_Matches(http.request.pr_url)
    \/ http.request.github.kind \in {"network_error", "status", "not_json", "object"}

\* C22: in a request to analyze_pr, analyze_directory and generate_report
\* are called only if the URL matched the pattern and the list of files
\* was fetched with at least one file downloaded; after an empty or
\* malformed URL, a status other than 200, a network error or a body that
\* is not a JSON list, the request ends with the form and an error
\* message and neither function was called.
C22_AnalysisGuarded ==
    http.request.endpoint = "analyze_pr" =>
        /\ (Analysed \/ Reported) =>
              /\ C22_Matches(http.request.pr_url)
              /\ http.request.github.kind = "files"
              /\ \E f \in http.request.github.files : f \in http.request.github.served
              /\ directory # {}
        /\ (Responded /\ C22_Refused) =>
              /\ http.response.kind = "form" /\ http.response.error # ""
              /\ ~Analysed /\ ~Reported

C22_Witness ==
    /\ Responded
    /\ http.request.endpoint = "analyze_pr"
    /\ http.request.pr_url = Url("https", "github.com", <<"o", "r", "pull", "1">>)
    /\ http.request.github.kind = "status"
    /\ http.calls = <<"parse_github_pr_url", "fetch_github_pr_files">>
    /\ http.response = Form("Error analyzing PR")

\* C23: a request to analyze ends with the PDF or with the form and an
\* error message; a missing file part, an empty file name, an upload
\* without a recognized file and an exception while the archive is
\* extracted end with the form and an error message, and no exception
\* leaves the handler.
C23_PdfOrForm ==
    (http.request.endpoint = "analyze" /\ Responded) =>
        /\ http.response.kind \in {"pdf", "form"}
        /\ http.response.kind = "form" => http.response.error # ""
        /\ http.response.kind = "pdf" <=> Reported
        /\ (\/ ~http.request.file.part
            \/ http.request.file.filename = <<>>
            \/ http.request.file.filename = ZipName /\ http.request.file.archive.bad
            \/ DOMAIN language_metrics = {})
              => http.response.kind = "form"

\* C24: an analysis that has started ends: analyze_directory calls at
\* most four operations for each language, the request then reaches the
\* report or the form with an error, and no step ends a request while its
\* analysis is running.
C24_RunEnds ==
    /\ [](Len(trace) <= 4 * Cardinality(DOMAIN language_metrics))
    /\ (pc = "start") ~> (Responded /\ http.response.kind \in {"pdf", "form"})
    /\ [][pc' = "responded" => pc \in {"request", "done"}]_vars

C24_Witness ==
    /\ Responded
    /\ http.request.endpoint = "analyze_pr"
    /\ Len(trace) = 8
    /\ Cardinality(DOMAIN language_metrics) = 2
    /\ http.response = Pdf

\* The files of the directory that belong to another language than the
\* given one of JavaScript and TypeScript.
C25_Others(language) ==
    {f \in directory :
        /\ LanguageOf(f) \in {"JavaScript", "TypeScript"}
        /\ LanguageOf(f) # language}

\* What the tool does on the directory without the files in drop: the
\* runs on those files are left out of a sequence of one run for each file.
C25_Without(env, drop) ==
    LET files == MatchingFiles(directory, JAVASCRIPT_ANALYZER_EXTENSIONS)
        n == Len(files)
        kept[i \in 0..n] ==
            IF i = 0 THEN <<>>
            ELSE IF files[i] \in drop THEN kept[i - 1]
            ELSE Append(kept[i - 1], env.runs[i])
    IN  IF Len(env.runs) = n THEN [env EXCEPT !.runs = kept[n]] ELSE env

\* C25: the four results of JavaScript in a run are those the operations
\* return on the directory without its TypeScript files, the tool doing
\* the same on every file that is left, and the same holds for TypeScript
\* and the JavaScript files.
C25_OwnFilesOnly ==
    pc = "done" =>
        \A i \in DOMAIN trace :
            trace[i].language \in {"JavaScript", "TypeScript"} =>
                language_metrics[trace[i].language][trace[i].metric] =
                    Analyze(trace[i].analyzer, trace[i].metric,
                            directory \ C25_Others(trace[i].language),
                            trace[i].before,
                            C25_Without(trace[i].env, C25_Others(trace[i].language))).result

\* C26: when analyze_style or analyze_complexity of the JavaScript
\* analyzer returns, .eslintrc.json is in the directory exactly if it was
\* there before the call, whichever way the operation returns.
C26_ConfigRestored ==
    (Called /\ last.analyzer = "JavaScriptAnalyzer"
            /\ last.metric \in {"style", "complexity"}) =>
        (last.ret.fs.eslintrc = "absent" <=> last.before.eslintrc = "absent")

\* C27: when analyze_style, analyze_quality or analyze_security of the
\* Java analyzer returns, no temporary file or directory it created is
\* left, whichever way the operation returns.
C27_TemporariesDeleted ==
    (Called /\ last.analyzer = "JavaAnalyzer"
            /\ last.metric \in {"style", "quality", "security"}) =>
        last.ret.fs.tmp = last.before.tmp

\* C28: every file analyze_pr has downloaded is in the file list of a
\* language once analyze_directory has grouped the files, so that a
\* request with a downloaded file never ends with an empty result.
C28_DownloadClassified ==
    (http.request.endpoint = "analyze_pr" /\ pc \in {"analyze", "done", "responded"}) =>
        /\ \A f \in directory :
              \E language \in DOMAIN language_metrics :
                  f \in Range(language_metrics[language].files)
        /\ directory # {} =>
              /\ DOMAIN language_metrics # {}
              /\ Responded => http.response = Pdf

\* The endings of the files an analyzer enumerates.
C29_Endings(analyzer) ==
    CASE analyzer = "PythonAnalyzer" -> {<<".", "p", "y">>}
      [] analyzer = "JavaScriptAnalyzer" ->
            {<<".", "j", "s">>, <<".", "j", "s", "x">>,
             <<".", "t", "s">>, <<".", "t", "s", "x">>}
      [] analyzer = "JavaAnalyzer" -> {<<".", "j", "a", "v", "a">>}

C29_NoFilesTexts ==
    {"No Python files found", "No JavaScript/TypeScript files found",
     "No Java files found"}

\* C29: an analyzer that analyze_directory calls for a language finds,
\* among the files of the directory, one whose name ends with one of its
\* extensions, and no result stored in a run is the one for a directory
\* without files of the language.
C29_FilesFound ==
    /\ \A i \in DOMAIN trace :
          /\ \E f \in Range(language_metrics[trace[i].language].files) :
                \E ending \in C29_Endings(trace[i].analyzer) :
                    /\ Len(ending) <= Len(f)
                    /\ SubSeq(f, Len(f) - Len(ending) + 1, Len(f)) = ending
          /\ Matching(trace[i].analyzer) # <<>>
    /\ \A language \in DOMAIN language_metrics :
          \A m \in {"style", "quality", "complexity", "security"} :
              \A j \in DOMAIN language_metrics[language][m].issues :
                  language_metrics[language][m].issues[j][1] \notin C29_NoFilesTexts

C29_Witness ==
    /\ pc = "done"
    /\ directory = {<<"c", ".", "t", "s">>, <<".", "p", "y">>}
    /\ Len(trace) = 4
    /\ trace[1].analyzer = "JavaScriptAnalyzer"
    /\ trace[1].language = "TypeScript"
    /\ language_metrics["TypeScript"].style = MetricResult(R(10), <<>>)

====
